---- MODULE Spec2Model ----
(***************************************************************************)
(* A model of the go-socks5 server.                                        *)
(*                                                                         *)
(*  - SpecServe: the listener life cycle of socks5.go (Serve, asyncServe,  *)
(*    Stop and the goroutine spawned per accepted connection).             *)
(*  - Spec: one connection session (ServeConn of socks5.go, authenticate   *)
(*    of auth.go, handleRequest of request.go) at the level of the bytes   *)
(*    read from and written to the client.                                 *)
(***************************************************************************)
EXTENDS Integers, Sequences, FiniteSets, TLC

VARIABLES
    \* ---- listener life cycle (socks5.go) ----
    loopPc,     \* position of Serve / asyncServe
    lkind,      \* dynamic type of the listener handed to Serve: "tcp" | "other"
    wait,       \* asyncServe's local `wait`
    wg,         \* asyncServe's sync.WaitGroup counter
    listener,   \* "open" | "closed"
    backlog,    \* clients that connected and are not yet accepted
    handlers,   \* connection id -> "none" | "running" | "done" | "killed"
    tracked,    \* connection id -> TRUE when the handler was started under wg
    stopPc,     \* Stop caller -> "idle" | "sending" | "returned"
    stopArg,    \* Stop caller -> the wait argument of its call
    signalled,  \* TRUE once asyncServe received a value from s.ch
    arrived,    \* number of clients that have connected so far
    \* ---- one connection session (socks5.go ServeConn, auth.go, request.go) ----
    conf,       \* the Config handed to New
    server,     \* the Server built by New: [config, authMethods]
    pc,         \* position of ServeConn
    io,         \* the client connection, see NewConn
    err,        \* the error ServeConn returns: "running" until it returns
    auth,       \* what authenticate did: [methods, invoked, cred]
    req,        \* what handleRequest found out about the request
    \* ---- the relay of an established CONNECT (request.go handleConnect, proxy) ----
    relay,      \* the two copy tasks, errCh and the two peers, see NoRelay
    \* ---- the address codec on its own (request.go sendReply, readAddrSpec) ----
    codec       \* an AddrSpec, the bytes sendReply wrote for it, what
                \* readAddrSpec made of them, see NoCodec

serveVars == <<loopPc, lkind, wait, wg, listener, backlog, handlers, tracked,
               stopPc, stopArg, signalled, arrived>>

sessVars == <<conf, server, pc, io, err, auth, req>>

relayVars == <<relay>>

codecVars == <<codec>>

vars == <<serveVars, sessVars, relayVars, codecVars>>

(***************************************************************************)
(* Bounds                                                                  *)
(***************************************************************************)
MaxConns == 2
MaxNameLen == 2
MaxStops == 2
MaxMethods == 2     \* longest method list a client offers
MaxCredLen == 1     \* longest username / password a client sends
MaxRelayBytes == 2  \* bytes each peer sends through an established relay
MaxWriteCap == 1    \* a failing client connection fails from write 1..MaxWriteCap+1 on

ConnIds == 1..MaxConns
Stoppers == 1..MaxStops

(***************************************************************************)
(* Protocol constants                                                      *)
(***************************************************************************)
socks5Version == 5
noAuth == 0
noAcceptable == 255
userPassAuth == 2
userAuthVersion == 1
authSuccess == 0
authFailure == 1
connectCommand == 1
bindCommand == 2
associateCommand == 3
ipv4Address == 1
fqdnAddress == 3
ipv6Address == 4
successReply == 0
serverFailure == 1
ruleFailure == 2
networkUnreachable == 3
hostUnreachable == 4
connectionRefused == 5
ttlExpired == 6
commandNotSupported == 7
addrTypeNotSupported == 8

(***************************************************************************)
(* The client connection: a byte stream read through bufConn and a writer. *)
(* in: bytes the reader will deliver before EOF; rd: the bytes read so far, *)
(* consumed: their number; out: bytes written so far; tried: bytes handed  *)
(* to Write,                                                               *)
(* written or not; wcap: number of Write calls that still succeed (-1: all *)
(* of them); wfail: a Write has failed; calls: the calls made so far.      *)
(***************************************************************************)
NewConn(w) ==
    [in |-> <<>>, rd |-> <<>>, consumed |-> 0, out |-> <<>>, tried |-> <<>>, wcap |-> w,
     wfail |-> FALSE, calls |-> <<>>]

Drop(q, n) == SubSeq(q, n + 1, Len(q))

\* r.Read on a one byte buffer, io.ReadAtLeast(r, buf, n) with len(buf) = n:
\* n bytes or an error (EOF / unexpected EOF); n = 0 reads nothing and succeeds.
Read(c, n) ==
    IF Len(c.in) >= n
    THEN [ok |-> TRUE,  b |-> SubSeq(c.in, 1, n),
          c |-> [c EXCEPT !.in = Drop(@, n), !.rd = @ \o SubSeq(c.in, 1, n),
                          !.consumed = @ + n]]
    ELSE [ok |-> FALSE, b |-> c.in,
          c |-> [c EXCEPT !.in = <<>>, !.rd = @ \o c.in,
                          !.consumed = @ + Len(c.in)]]

\* conn.Write(bytes): all the bytes are written, or the write fails.
Write(c, bytes) ==
    IF c.wcap # 0
    THEN [ok |-> TRUE,  c |-> [c EXCEPT !.out = @ \o bytes, !.tried = @ \o bytes,
                                         !.wcap = IF @ > 0 THEN @ - 1 ELSE @]]
    ELSE [ok |-> FALSE, c |-> [c EXCEPT !.tried = @ \o bytes, !.wfail = TRUE]]

\* The bytes the client sends next reach the reader behind what it holds.
Arrive(c, bytes) == [c EXCEPT !.in = @ \o bytes]

Call(c, name) == [c EXCEPT !.calls = Append(@, name)]

Called(name) == \E i \in DOMAIN io.calls : io.calls[i] = name

(***************************************************************************)
(* Authenticators, credential stores and New (socks5.go, auth.go)          *)
(***************************************************************************)
NoAuthAuthenticator == [kind |-> "NoAuth", store |-> {}]
UserPassAuthenticator(store) == [kind |-> "UserPass", store |-> store]

\* An Authenticator supplied by the embedding program: GetCode returns the
\* code its implementation chooses.
CustomAuthenticator(code) == [kind |-> "Custom", store |-> {}, code |-> code]

GetCode(a) ==
    IF a.kind = "NoAuth" THEN noAuth
    ELSE IF a.kind = "UserPass" THEN userPassAuth
    ELSE a.code

\* CredentialStore.Valid: a store is the set of <<user, password>> it accepts.
Valid(store, user, pass) == <<user, pass>> \in store

NoCredentials == [nil |-> TRUE, store |-> {}]
Credentials(store) == [nil |-> FALSE, store |-> store]

\* for _, a := range conf.AuthMethods { server.authMethods[a.GetCode()] = a }
Registry(am) ==
    [code \in {GetCode(am[i]) : i \in DOMAIN am} |->
        am[CHOOSE i \in DOMAIN am :
              /\ GetCode(am[i]) = code
              /\ \A j \in DOMAIN am : GetCode(am[j]) = code => j <= i]]

\* Config: Resolver, Rules and ConnectFunc are "nil" when not provided and
\* "custom" when the embedding program provides its own.
Config(am, creds, resolver, rules, connect) ==
    [AuthMethods |-> am, Credentials |-> creds, Resolver |-> resolver,
     Rules |-> rules, ConnectFunc |-> connect]

New(cf) ==
    LET am == IF Len(cf.AuthMethods) = 0
              THEN IF ~cf.Credentials.nil
                   THEN <<UserPassAuthenticator(cf.Credentials.store)>>
                   ELSE <<NoAuthAuthenticator>>
              ELSE cf.AuthMethods
    IN [config |-> [cf EXCEPT
                      !.AuthMethods = am,
                      !.Resolver = IF @ = "nil" THEN "DNSResolver" ELSE @,
                      !.Rules = IF @ = "nil" THEN "PermitAll" ELSE @,
                      !.ConnectFunc = IF @ = "nil" THEN "net.Dial" ELSE @],
        authMethods |-> Registry(am)]

(***************************************************************************)
(* Authentication (auth.go)                                                *)
(***************************************************************************)
NoAuthenticator == [kind |-> "none", store |-> {}]

\* methods: the list readMethods returned; cator: the Authenticator invoked;
\* user, pass, cred: the pair handed to the CredentialStore and its answer.
NoAuthentication ==
    [methods |-> <<>>, cator |-> NoAuthenticator,
     user |-> <<>>, pass |-> <<>>, cred |-> "none"]

Result(c, e, a) == [c |-> c, err |-> e, auth |-> a]

\* Variant of NoAuthAuthenticate that waits for one byte from the client
\* after announcing the method.
NoAuthAuthenticate_reads(c, a) ==
    LET w == Write(c, <<socks5Version, noAuth>>)
        r == Read(w.c, 1)
    IN Result(r.c, IF ~w.ok THEN "write" ELSE IF ~r.ok THEN "read" ELSE "nil", a)

\* NoAuthAuthenticator.Authenticate
NoAuthAuthenticate(c, a) ==
    LET w == Write(c, <<socks5Version, noAuth>>)
    IN Result(w.c, IF w.ok THEN "nil" ELSE "write", a)

\* Variant of UserPassVerify that returns UserAuthFailed without writing the
\* failure status.
UserPassVerify_silentFailure(c, a, store, user, pass) ==
    LET q == Call(c, "Valid")
        a1 == [a EXCEPT !.user = user, !.pass = pass] IN
    IF Valid(store, user, pass)
    THEN LET w == Write(q, <<userAuthVersion, authSuccess>>)
         IN Result(w.c, IF w.ok THEN "nil" ELSE "write",
                   [a1 EXCEPT !.cred = "accepted"])
    ELSE Result(q, "UserAuthFailed", [a1 EXCEPT !.cred = "rejected"])

\* The tail of UserPassAuthenticator.Authenticate: verify the password and
\* write the status.
UserPassVerify(c, a, store, user, pass) ==
    LET q == Call(c, "Valid")
        a1 == [a EXCEPT !.user = user, !.pass = pass] IN
    IF Valid(store, user, pass)
    THEN LET w == Write(q, <<userAuthVersion, authSuccess>>)
         IN Result(w.c, IF w.ok THEN "nil" ELSE "write",
                   [a1 EXCEPT !.cred = "accepted"])
    ELSE LET w == Write(q, <<userAuthVersion, authFailure>>)
         IN Result(w.c, IF w.ok THEN "UserAuthFailed" ELSE "write",
                   [a1 EXCEPT !.cred = "rejected"])

\* Variant of UserPassAuthenticate that answers a wrong sub-negotiation
\* version with a failure status.
UserPassAuthenticate_statusOnBadVersion(c, a, store, sub) ==
    LET w == Write(c, <<socks5Version, userPassAuth>>) IN
    IF ~w.ok THEN Result(w.c, "write", a) ELSE
    LET header == Read(Arrive(w.c, sub), 2) IN
    IF ~header.ok THEN Result(header.c, "read", a) ELSE
    IF header.b[1] # userAuthVersion
    THEN Result(Write(header.c, <<userAuthVersion, authFailure>>).c,
                "UnsupportedAuthVersion", a) ELSE
    LET user == Read(header.c, header.b[2]) IN
    IF ~user.ok THEN Result(user.c, "read", a) ELSE
    LET plen == Read(user.c, 1) IN
    IF ~plen.ok THEN Result(plen.c, "read", a) ELSE
    LET pass == Read(plen.c, plen.b[1]) IN
    IF ~pass.ok THEN Result(pass.c, "read", a) ELSE
    UserPassVerify(pass.c, a, store, user.b, pass.b)

\* UserPassAuthenticator.Authenticate; sub is what the client sends once it
\* has been told the method.
UserPassAuthenticate(c, a, store, sub) ==
    LET w == Write(c, <<socks5Version, userPassAuth>>) IN
    IF ~w.ok THEN Result(w.c, "write", a) ELSE
    LET header == Read(Arrive(w.c, sub), 2) IN
    IF ~header.ok THEN Result(header.c, "read", a) ELSE
    IF header.b[1] # userAuthVersion
    THEN Result(header.c, "UnsupportedAuthVersion", a) ELSE
    LET user == Read(header.c, header.b[2]) IN
    IF ~user.ok THEN Result(user.c, "read", a) ELSE
    LET plen == Read(user.c, 1) IN
    IF ~plen.ok THEN Result(plen.c, "read", a) ELSE
    LET pass == Read(plen.c, plen.b[1]) IN
    IF ~pass.ok THEN Result(pass.c, "read", a) ELSE
    UserPassVerify(pass.c, a, store, user.b, pass.b)

\* Authenticator.Authenticate, by dynamic type
Authenticate(cator, c, a, sub) ==
    LET q == Call(c, "Authenticate")
        a1 == [a EXCEPT !.cator = cator]
    IN IF cator.kind = "NoAuth"
       THEN NoAuthAuthenticate(q, a1)
       ELSE UserPassAuthenticate(q, a1, cator.store, sub)

\* readMethods
readMethods(c) ==
    LET header == Read(c, 1) IN
    IF ~header.ok THEN [ok |-> FALSE, methods |-> <<>>, c |-> header.c] ELSE
    LET m == Read(header.c, header.b[1])
    IN [ok |-> m.ok, methods |-> m.b, c |-> m.c]

\* Variant of noAcceptableAuth that announces NO_AUTH instead of 0xFF.
noAcceptableAuth_wrongByte(c, a) ==
    LET w == Write(c, <<socks5Version, noAuth>>)
    IN Result(w.c, "NoSupportedAuth", a)

\* noAcceptableAuth: the result of the Write is dropped.
noAcceptableAuth(c, a) ==
    LET w == Write(c, <<socks5Version, noAcceptable>>)
    IN Result(w.c, "NoSupportedAuth", a)

\* Variant of selectMethod that prefers the lowest registered code the client
\* offers, whatever its place in the client's list.
selectMethod_lowestCode(methods, reg, i) ==
    LET hits == {k \in 1..Len(methods) : methods[k] \in DOMAIN reg} IN
    IF hits = {} THEN 0
    ELSE CHOOSE k \in hits : \A l \in hits : methods[k] <= methods[l]

\* for _, method := range methods { cator, found := s.authMethods[method] ... }:
\* the index of the method the loop returns on, 0 when it runs to the end.
RECURSIVE selectMethod(_, _, _)
selectMethod(methods, reg, i) ==
    IF i > Len(methods) THEN 0
    ELSE IF methods[i] \in DOMAIN reg THEN i
    ELSE selectMethod(methods, reg, i + 1)

\* Server.authenticate
authenticate(srv, c0, sub) ==
    LET c == Call(c0, "authenticate")
        a0 == NoAuthentication
        rm == readMethods(c) IN
    IF ~rm.ok THEN Result(rm.c, "FailedToGetAuthMethods", a0) ELSE
    LET a == [a0 EXCEPT !.methods = rm.methods]
        k == selectMethod(rm.methods, srv.authMethods, 1) IN
    IF k # 0
    THEN Authenticate(srv.authMethods[rm.methods[k]], rm.c, a, sub)
    ELSE noAcceptableAuth(rm.c, a)

(***************************************************************************)
(* Requests and replies (request.go)                                       *)
(***************************************************************************)
\* AddrSpec; nil marks the nil pointer, IP = <<>> the nil net.IP.
AddrSpec(fqdn, ip, port) == [nil |-> FALSE, FQDN |-> fqdn, IP |-> ip, Port |-> port]
NilAddr == [nil |-> TRUE, FQDN |-> <<>>, IP |-> <<>>, Port |-> 0]

v4InV6Prefix == <<0, 0, 0, 0, 0, 0, 0, 0, 0, 0, 255, 255>>

\* net.IP.To4: the 4-byte form, <<>> (nil) when the address is not IPv4.
To4(ip) ==
    IF Len(ip) = 4 THEN ip
    ELSE IF Len(ip) = 16 /\ SubSeq(ip, 1, 12) = v4InV6Prefix THEN SubSeq(ip, 13, 16)
    ELSE <<>>

\* net.IP.To16: the 16-byte form, <<>> (nil) when the length is wrong.
To16(ip) ==
    IF Len(ip) = 4 THEN v4InV6Prefix \o ip
    ELSE IF Len(ip) = 16 THEN ip
    ELSE <<>>

\* Variant of readAddrSpec that takes the first port byte as the low one.
readAddrSpec_portLowFirst(c) ==
    LET addrType == Read(c, 1) IN
    IF ~addrType.ok THEN [e |-> "read", d |-> NilAddr, c |-> addrType.c] ELSE
    LET t == addrType.b[1] IN
    IF t \notin {ipv4Address, ipv6Address, fqdnAddress}
    THEN [e |-> "unrecognizedAddrType", d |-> NilAddr, c |-> addrType.c] ELSE
    LET alen == IF t = fqdnAddress THEN Read(addrType.c, 1)
                ELSE [ok |-> TRUE, b |-> <<IF t = ipv4Address THEN 4 ELSE 16>>,
                      c |-> addrType.c] IN
    IF ~alen.ok THEN [e |-> "read", d |-> NilAddr, c |-> alen.c] ELSE
    LET body == Read(alen.c, alen.b[1]) IN
    IF ~body.ok THEN [e |-> "read", d |-> NilAddr, c |-> body.c] ELSE
    LET port == Read(body.c, 2) IN
    IF ~port.ok THEN [e |-> "read", d |-> NilAddr, c |-> port.c] ELSE
    [e |-> "nil",
     d |-> AddrSpec(IF t = fqdnAddress THEN body.b ELSE <<>>,
                    IF t = fqdnAddress THEN <<>> ELSE body.b,
                    port.b[2] * 256 + port.b[1]),
     c |-> port.c]

\* readAddrSpec
readAddrSpec(c) ==
    LET addrType == Read(c, 1) IN
    IF ~addrType.ok THEN [e |-> "read", d |-> NilAddr, c |-> addrType.c] ELSE
    LET t == addrType.b[1] IN
    IF t \notin {ipv4Address, ipv6Address, fqdnAddress}
    THEN [e |-> "unrecognizedAddrType", d |-> NilAddr, c |-> addrType.c] ELSE
    LET alen == IF t = fqdnAddress THEN Read(addrType.c, 1)
                ELSE [ok |-> TRUE, b |-> <<IF t = ipv4Address THEN 4 ELSE 16>>,
                      c |-> addrType.c] IN
    IF ~alen.ok THEN [e |-> "read", d |-> NilAddr, c |-> alen.c] ELSE
    LET body == Read(alen.c, alen.b[1]) IN
    IF ~body.ok THEN [e |-> "read", d |-> NilAddr, c |-> body.c] ELSE
    LET port == Read(body.c, 2) IN
    IF ~port.ok THEN [e |-> "read", d |-> NilAddr, c |-> port.c] ELSE
    [e |-> "nil",
     d |-> AddrSpec(IF t = fqdnAddress THEN body.b ELSE <<>>,
                    IF t = fqdnAddress THEN <<>> ELSE body.b,
                    port.b[1] * 256 + port.b[2]),
     c |-> port.c]

\* The frame sendReply formats, <<>> when the address cannot be formatted.
\* Variant of replyFrame without the case of the nil address.
replyFrame_noNilCase(resp, addr) ==
    LET port == <<(addr.Port \div 256) % 256, addr.Port % 256>> IN
    IF addr.FQDN # <<>>
    THEN <<socks5Version, resp, 0, fqdnAddress, Len(addr.FQDN) % 256>> \o addr.FQDN \o port
    ELSE IF To4(addr.IP) # <<>>
    THEN <<socks5Version, resp, 0, ipv4Address>> \o To4(addr.IP) \o port
    ELSE IF To16(addr.IP) # <<>>
    THEN <<socks5Version, resp, 0, ipv6Address>> \o To16(addr.IP) \o port
    ELSE <<>>

\* Variant of replyFrame that stores the reply code in the reserved byte.
replyFrame_codeInReserved(resp, addr) ==
    LET port == <<(addr.Port \div 256) % 256, addr.Port % 256>> IN
    IF addr.nil THEN <<socks5Version, 0, resp, ipv4Address, 0, 0, 0, 0, 0, 0>>
    ELSE IF addr.FQDN # <<>>
    THEN <<socks5Version, 0, resp, fqdnAddress, Len(addr.FQDN) % 256>> \o addr.FQDN \o port
    ELSE IF To4(addr.IP) # <<>>
    THEN <<socks5Version, 0, resp, ipv4Address>> \o To4(addr.IP) \o port
    ELSE IF To16(addr.IP) # <<>>
    THEN <<socks5Version, 0, resp, ipv6Address>> \o To16(addr.IP) \o port
    ELSE <<>>

replyFrame(resp, addr) ==
    LET port == <<(addr.Port \div 256) % 256, addr.Port % 256>> IN
    IF addr.nil THEN <<socks5Version, resp, 0, ipv4Address, 0, 0, 0, 0, 0, 0>>
    ELSE IF addr.FQDN # <<>>
    THEN <<socks5Version, resp, 0, fqdnAddress, Len(addr.FQDN) % 256>> \o addr.FQDN \o port
    ELSE IF To4(addr.IP) # <<>>
    THEN <<socks5Version, resp, 0, ipv4Address>> \o To4(addr.IP) \o port
    ELSE IF To16(addr.IP) # <<>>
    THEN <<socks5Version, resp, 0, ipv6Address>> \o To16(addr.IP) \o port
    ELSE <<>>

\* sendReply: e is "nil", "format" (address not formattable) or "write".
sendReply(c0, resp, addr) ==
    LET c == Call(c0, "sendReply")
        msg == replyFrame(resp, addr) IN
    IF msg = <<>> THEN [e |-> "format", c |-> c]
    ELSE LET w == Write(c, msg) IN [e |-> IF w.ok THEN "nil" ELSE "write", c |-> w.c]

\* What one request found out; none of it is set before the step that sets it.
\* at: the number of bytes read before handleRequest; resolved, rewriter,
\* allowed, dialed, dialMsg: what the resolver, the configuration, the RuleSet
\* and the dial answered.
NoDialError == [refused |-> FALSE, netUnreachable |-> FALSE]

NoRequest ==
    [at |-> -1, cmd |-> -1, dest |-> NilAddr, realDest |-> NilAddr,
     resolved |-> "unset", rewriter |-> "unset", allowed |-> "unset",
     dialed |-> "unset", dialMsg |-> NoDialError,
     ruleArg |-> NilAddr, dialArg |-> NilAddr, reply |-> -1, target |-> "none"]

Outcome(c, e, r, next) == [c |-> c, err |-> e, req |-> r, pc |-> next]

\* if err := sendReply(...); err != nil { return "Failed to send reply" };
\* return e
\* Variant of ReplyAndReturn that sends the reply a second time.
ReplyAndReturn_twice(c, resp, addr, e, r) ==
    LET s == sendReply(sendReply(c, resp, addr).c, resp, addr)
        r1 == [r EXCEPT !.reply = resp] IN
    IF s.e # "nil" THEN Outcome(s.c, "FailedToSendReply", r1, "closed")
    ELSE Outcome(s.c, e, r1, "closed")

ReplyAndReturn(c, resp, addr, e, r) ==
    LET s == sendReply(c, resp, addr)
        r1 == [r EXCEPT !.reply = resp] IN
    IF s.e # "nil" THEN Outcome(s.c, "FailedToSendReply", r1, "closed")
    ELSE Outcome(s.c, e, r1, "closed")

\* Variant of dialFailureReply that answers hostUnreachable to every failure.
dialFailureReply_alwaysHost(msg) == hostUnreachable

\* The reply code for a failed dial, from the error message.
dialFailureReply(msg) ==
    IF msg.refused THEN connectionRefused
    ELSE IF msg.netUnreachable THEN networkUnreachable
    ELSE hostUnreachable

\* Variant of handleConnect that dials although the RuleSet denied.
handleConnect_ignoreRule(c0, r, env) ==
    LET c1 == Call(c0, "AllowConnect")
        r1 == [r EXCEPT !.ruleArg = r.realDest,
                        !.allowed = IF env.allow THEN "yes" ELSE "no"] IN
    IF ~env.tcpPeer THEN Outcome(c0, "panic", r, "crashed") ELSE
    LET c2 == Call(c1, "DialTCP")
        r2 == [r1 EXCEPT !.dialArg = [r.realDest EXCEPT !.FQDN = <<>>],
                         !.dialed = IF env.dial.ok THEN "ok" ELSE "failed",
                         !.dialMsg = env.dial.msg] IN
    IF ~env.dial.ok
    THEN ReplyAndReturn(c2, dialFailureReply(env.dial.msg), NilAddr, "ConnectFailed", r2) ELSE
    LET r3 == [r2 EXCEPT !.target = "open", !.reply = successReply]
        s == sendReply(c2, successReply, AddrSpec(<<>>, env.dial.local.IP, env.dial.local.Port)) IN
    IF s.e # "nil"
    THEN Outcome(s.c, "FailedToSendReply", [r3 EXCEPT !.target = "closed"], "closed")
    ELSE Outcome(Call(s.c, "proxy"), "running", r3, "relay")

\* Variant of handleConnect whose success reply carries the requested
\* destination.
handleConnect_replyDest(c0, r, env) ==
    LET c1 == Call(c0, "AllowConnect")
        r1 == [r EXCEPT !.ruleArg = r.realDest,
                        !.allowed = IF env.allow THEN "yes" ELSE "no"] IN
    IF ~env.tcpPeer THEN Outcome(c0, "panic", r, "crashed") ELSE
    IF ~env.allow
    THEN ReplyAndReturn(c1, ruleFailure, NilAddr, "BlockedByRules", r1) ELSE
    LET c2 == Call(c1, "DialTCP")
        r2 == [r1 EXCEPT !.dialArg = [r.realDest EXCEPT !.FQDN = <<>>],
                         !.dialed = IF env.dial.ok THEN "ok" ELSE "failed",
                         !.dialMsg = env.dial.msg] IN
    IF ~env.dial.ok
    THEN ReplyAndReturn(c2, dialFailureReply(env.dial.msg), NilAddr, "ConnectFailed", r2) ELSE
    LET r3 == [r2 EXCEPT !.target = "open", !.reply = successReply]
        s == sendReply(c2, successReply, r.dest) IN
    IF s.e # "nil"
    THEN Outcome(s.c, "FailedToSendReply", [r3 EXCEPT !.target = "closed"], "closed")
    ELSE Outcome(Call(s.c, "proxy"), "running", r3, "relay")

\* Variant of handleConnect without the deferred target.Close() on the path
\* of a failed success reply.
handleConnect_leakOnReplyFailure(c0, r, env) ==
    LET c1 == Call(c0, "AllowConnect")
        r1 == [r EXCEPT !.ruleArg = r.realDest,
                        !.allowed = IF env.allow THEN "yes" ELSE "no"] IN
    IF ~env.tcpPeer THEN Outcome(c0, "panic", r, "crashed") ELSE
    IF ~env.allow
    THEN ReplyAndReturn(c1, ruleFailure, NilAddr, "BlockedByRules", r1) ELSE
    LET c2 == Call(c1, "DialTCP")
        r2 == [r1 EXCEPT !.dialArg = [r.realDest EXCEPT !.FQDN = <<>>],
                         !.dialed = IF env.dial.ok THEN "ok" ELSE "failed",
                         !.dialMsg = env.dial.msg] IN
    IF ~env.dial.ok
    THEN ReplyAndReturn(c2, dialFailureReply(env.dial.msg), NilAddr, "ConnectFailed", r2) ELSE
    LET r3 == [r2 EXCEPT !.target = "open", !.reply = successReply]
        s == sendReply(c2, successReply, AddrSpec(<<>>, env.dial.local.IP, env.dial.local.Port)) IN
    IF s.e # "nil"
    THEN Outcome(s.c, "FailedToSendReply", r3, "closed")
    ELSE Outcome(Call(s.c, "proxy"), "running", r3, "relay")

\* handleConnect
handleConnect(c0, r, env) ==
    LET c1 == Call(c0, "AllowConnect")
        r1 == [r EXCEPT !.ruleArg = r.realDest,
                        !.allowed = IF env.allow THEN "yes" ELSE "no"] IN
    IF ~env.tcpPeer THEN Outcome(c0, "panic", r, "crashed") ELSE
    IF ~env.allow
    THEN ReplyAndReturn(c1, ruleFailure, NilAddr, "BlockedByRules", r1) ELSE
    LET c2 == Call(c1, "DialTCP")
        r2 == [r1 EXCEPT !.dialArg = [r.realDest EXCEPT !.FQDN = <<>>],
                         !.dialed = IF env.dial.ok THEN "ok" ELSE "failed",
                         !.dialMsg = env.dial.msg] IN
    IF ~env.dial.ok
    THEN ReplyAndReturn(c2, dialFailureReply(env.dial.msg), NilAddr, "ConnectFailed", r2) ELSE
    LET r3 == [r2 EXCEPT !.target = "open", !.reply = successReply]
        s == sendReply(c2, successReply, AddrSpec(<<>>, env.dial.local.IP, env.dial.local.Port)) IN
    IF s.e # "nil"
    THEN Outcome(s.c, "FailedToSendReply", [r3 EXCEPT !.target = "closed"], "closed")
    ELSE Outcome(Call(s.c, "proxy"), "running", r3, "relay")

\* Variant of handleUnsupported that answers without asking the RuleSet.
handleUnsupported_noRuleCheck(c0, r, env, rule) ==
    IF ~env.tcpPeer THEN Outcome(c0, "panic", r, "crashed")
    ELSE ReplyAndReturn(c0, commandNotSupported, NilAddr, "nil", r)

\* handleBind and handleAssociate, which differ in the rule they ask.
handleUnsupported(c0, r, env, rule) ==
    LET c1 == Call(c0, rule)
        r1 == [r EXCEPT !.ruleArg = r.realDest,
                        !.allowed = IF env.allow THEN "yes" ELSE "no"] IN
    IF ~env.tcpPeer THEN Outcome(c0, "panic", r, "crashed") ELSE
    IF ~env.allow
    THEN ReplyAndReturn(c1, ruleFailure, NilAddr, "BlockedByRules", r1)
    ELSE ReplyAndReturn(c1, commandNotSupported, NilAddr, "nil", r1)

handleBind(c, r, env) == handleUnsupported(c, r, env, "AllowBind")

handleAssociate(c, r, env) == handleUnsupported(c, r, env, "AllowAssociate")

\* handleRequest from the switch on the command on.
dispatch(c0, r, env) ==
    LET c == Call(c0, "dispatch") IN
    IF r.cmd = connectCommand THEN handleConnect(c, r, env)
    ELSE IF r.cmd = bindCommand THEN handleBind(c, r, env)
    ELSE IF r.cmd = associateCommand THEN handleAssociate(c, r, env)
    ELSE ReplyAndReturn(c, commandNotSupported, NilAddr, "UnsupportedCommand", r)

\* Variant of handleRequestRead that returns the error of an unrecognized
\* address type without a reply.
handleRequestRead_noAddrTypeReply(c0) ==
    LET c == Call(c0, "handleRequest")
        header == Read(c, 3)
        rq == [NoRequest EXCEPT !.at = c0.consumed] IN
    IF ~header.ok THEN Outcome(header.c, "FailedToGetCommandVersion", rq, "closed") ELSE
    IF header.b[1] # socks5Version
    THEN Outcome(header.c, "UnsupportedCommandVersion", rq, "closed") ELSE
    LET r0 == [rq EXCEPT !.cmd = header.b[2]]
        ra == readAddrSpec(Call(header.c, "readAddrSpec")) IN
    IF ra.e # "nil" THEN Outcome(ra.c, "FailedToReadDestination", r0, "closed") ELSE
    Outcome(ra.c, "running", [r0 EXCEPT !.dest = ra.d], "resolve")

\* handleRequest up to the destination address: the header, the version
\* test and readAddrSpec.
handleRequestRead(c0) ==
    LET c == Call(c0, "handleRequest")
        header == Read(c, 3)
        rq == [NoRequest EXCEPT !.at = c0.consumed] IN
    IF ~header.ok THEN Outcome(header.c, "FailedToGetCommandVersion", rq, "closed") ELSE
    IF header.b[1] # socks5Version
    THEN Outcome(header.c, "UnsupportedCommandVersion", rq, "closed") ELSE
    LET r0 == [rq EXCEPT !.cmd = header.b[2]]
        ra == readAddrSpec(Call(header.c, "readAddrSpec")) IN
    IF ra.e = "unrecognizedAddrType"
    THEN ReplyAndReturn(ra.c, addrTypeNotSupported, NilAddr, "FailedToReadDestination", r0) ELSE
    IF ra.e # "nil" THEN Outcome(ra.c, "FailedToReadDestination", r0, "closed") ELSE
    Outcome(ra.c, "running", [r0 EXCEPT !.dest = ra.d], "resolve")

\* Variant of handleRequestResolve that goes on with an unresolved name.
handleRequestResolve_ignoreFailure(c, r, env) ==
    LET resolving == r.dest.FQDN # <<>>
        c1 == IF resolving THEN Call(c, "Resolve") ELSE c
        dest == IF resolving THEN [r.dest EXCEPT !.IP = env.resolve.ip] ELSE r.dest
        rewriting == ~env.rewrite.nil
        c2 == IF rewriting THEN Call(c1, "Rewrite") ELSE c1
        realDest == IF rewriting THEN env.rewrite.to ELSE dest
    IN Outcome(c2, "running",
               [r EXCEPT !.dest = dest, !.realDest = realDest,
                         !.resolved = IF ~resolving THEN @
                                      ELSE IF env.resolve.ok THEN "ok" ELSE "failed",
                         !.rewriter = IF rewriting THEN "set" ELSE "nil"],
               "dispatch")

\* Variant of handleRequestResolve that calls the rewriter and keeps the
\* requested destination.
handleRequestResolve_discardRewrite(c, r, env) ==
    LET resolving == r.dest.FQDN # <<>>
        c1 == IF resolving THEN Call(c, "Resolve") ELSE c IN
    IF resolving /\ ~env.resolve.ok
    THEN ReplyAndReturn(c1, hostUnreachable, NilAddr, "FailedToResolve",
                        [r EXCEPT !.resolved = "failed"]) ELSE
    LET dest == IF resolving THEN [r.dest EXCEPT !.IP = env.resolve.ip] ELSE r.dest
        rewriting == ~env.rewrite.nil
        c2 == IF rewriting THEN Call(c1, "Rewrite") ELSE c1
    IN Outcome(c2, "running",
               [r EXCEPT !.dest = dest, !.realDest = dest,
                         !.resolved = IF resolving THEN "ok" ELSE @,
                         !.rewriter = IF rewriting THEN "set" ELSE "nil"],
               "dispatch")

\* handleRequest from the resolution of the name to the rewrite.
handleRequestResolve(c, r, env) ==
    LET resolving == r.dest.FQDN # <<>>
        c1 == IF resolving THEN Call(c, "Resolve") ELSE c IN
    IF resolving /\ ~env.resolve.ok
    THEN ReplyAndReturn(c1, hostUnreachable, NilAddr, "FailedToResolve",
                        [r EXCEPT !.resolved = "failed"]) ELSE
    LET dest == IF resolving THEN [r.dest EXCEPT !.IP = env.resolve.ip] ELSE r.dest
        rewriting == ~env.rewrite.nil
        c2 == IF rewriting THEN Call(c1, "Rewrite") ELSE c1
        realDest == IF rewriting THEN env.rewrite.to ELSE dest
    IN Outcome(c2, "running",
               [r EXCEPT !.dest = dest, !.realDest = realDest,
                         !.resolved = IF resolving THEN "ok" ELSE @,
                         !.rewriter = IF rewriting THEN "set" ELSE "nil"],
               "dispatch")

(***************************************************************************)
(* What clients, configurations and the network may do (bounded)           *)
(***************************************************************************)
RECURSIVE SeqsUpTo(_, _)
SeqsUpTo(S, n) ==
    IF n = 0 THEN {<<>>}
    ELSE LET shorter == SeqsUpTo(S, n - 1)
         IN shorter \cup {Append(q, x) : q \in {r \in shorter : Len(r) = n - 1}, x \in S}

Prefixes(q) == {SubSeq(q, 1, n) : n \in 0..Len(q)}

StoreA == {<< <<97>>, <<98>> >>}
StoreB == {<< <<98>>, <<97>> >>, << <<>>, <<>> >>}

AuthMethodLists ==
    {<<>>, <<NoAuthAuthenticator>>, <<UserPassAuthenticator(StoreA)>>,
     <<NoAuthAuthenticator, UserPassAuthenticator(StoreA)>>,
     <<UserPassAuthenticator(StoreA), NoAuthAuthenticator>>,
     <<UserPassAuthenticator(StoreA), UserPassAuthenticator(StoreB)>>}

\* The servers whose sessions are explored provide their own resolver, rule
\* set and dial function: their answers are the environment's choice.
Configs ==
    {Config(am, creds, "custom", "custom", "custom") :
        am \in AuthMethodLists, creds \in {NoCredentials, Credentials(StoreB)}}

\* The configurations handed to New.
HookValues == {"nil", "custom"}
NewConfigs ==
    {Config(am, creds, resolver, rules, connect) :
        am \in AuthMethodLists \cup
                 {<<CustomAuthenticator(1)>>,
                  <<CustomAuthenticator(noAcceptable)>>,
                  <<NoAuthAuthenticator, CustomAuthenticator(noAcceptable)>>},
        creds \in {NoCredentials, Credentials(StoreB)},
        resolver \in HookValues, rules \in HookValues,
        connect \in HookValues}

VersionStreams == {<<>>, <<4>>, <<socks5Version>>}

OfferedCodes == {noAuth, 1, userPassAuth}
MethodFrames == {<<Len(m)>> \o m : m \in SeqsUpTo(OfferedCodes, MaxMethods)}

CredStrings == SeqsUpTo({97, 98}, MaxCredLen)
UserPassFrames ==
    {<<v, Len(u)>> \o u \o <<Len(p)>> \o p :
        v \in {userAuthVersion, socks5Version}, u \in CredStrings, p \in CredStrings}

\* What a client may send for the negotiation: a method frame and, once the
\* server has chosen username/password, a frame for it; or a truncation.
MethodStreams == UNION {Prefixes(m) : m \in MethodFrames}
UserPassStreams == UNION {Prefixes(u) : u \in UserPassFrames}

IPv4a == <<10, 0, 0, 1>>
IPv4b == <<10, 0, 0, 2>>
IPv6a == <<0, 0, 0, 0, 0, 0, 0, 0, 0, 0, 0, 0, 0, 0, 0, 1>>

AddrBodies ==
    {<<ipv4Address>> \o IPv4a, <<ipv6Address>> \o IPv6a,
     <<fqdnAddress, 1, 120>>, <<fqdnAddress, 0>>, <<9>>}

RequestFrames ==
    {<<socks5Version, cmd, 0>> \o a \o <<0, 80>> :
        cmd \in {connectCommand, bindCommand, associateCommand, 9}, a \in AddrBodies}
    \cup {<<4, connectCommand, 0, ipv4Address>>}

\* What a client may send for the request: a frame or any truncation of it.
RequestStreams == UNION {Prefixes(f) : f \in RequestFrames}

\* Where the configured rewriter sends every destination.
RewrittenAddr == AddrSpec(<<>>, IPv6a, 8080)

\* The answers of the resolver and the configured rewriter (nil: none).
ResolveEnvs ==
    [resolve : {[ok |-> FALSE, ip |-> <<>>], [ok |-> TRUE, ip |-> IPv4b]},
     rewrite : {[nil |-> TRUE, to |-> NilAddr],
                [nil |-> FALSE, to |-> RewrittenAddr]}]

\* What the message of a failed dial contains: "refused", "network is
\* unreachable" or neither; the message of one failed connect names one cause.
DialErrors ==
    {m \in [refused : BOOLEAN, netUnreachable : BOOLEAN] : ~(m.refused /\ m.netUnreachable)}

\* The type of the peer address, the answer of the RuleSet and the outcome of
\* the dial.
LocalAddr == AddrSpec(<<>>, IPv4b, 4000)

DispatchEnvs ==
    [tcpPeer : BOOLEAN, allow : BOOLEAN,
     dial : {[ok |-> TRUE, msg |-> NoDialError, local |-> LocalAddr]}
            \cup {[ok |-> FALSE, msg |-> m, local |-> NilAddr] : m \in DialErrors}]

WriteCaps == {-1} \cup 0..MaxWriteCap

\* The relay before handleConnect starts it.
\* buffered: how many of the unread client bytes bufConn holds in its buffer;
\* pipelined: how many bytes the client sent together with its request;
\* clientSent, targetSent: what each peer has sent for the other so far;
\* clientEnd, targetEnd: "open", "shutdown" (the peer closed its sending side)
\* or "closed" (the peer closed the connection); targetIn: bytes of the target
\* not yet read; targetGot: bytes written to the target; task: the goroutine
\* proxy(name, ...) at "copy" (io.Copy reading), "write" (io.Copy writing
\* chunk), "send" (about to send result on errCh) or "done"; errCh: the channel.
ProxyNames == {"target", "client"}
errChCap == 2

NoRelay ==
    [buffered |-> 0, pipelined |-> 0, clientSent |-> <<>>, clientEnd |-> "open",
     targetIn |-> <<>>, targetSent |-> <<>>, targetEnd |-> "open", targetGot |-> <<>>,
     task |-> [n \in ProxyNames |-> [pc |-> "copy", chunk |-> <<>>, result |-> "nil"]],
     errCh |-> <<>>]

InitNoRelay == relay = NoRelay

\* addr: the AddrSpec to encode; sent, wire: sendReply's error and the
\* address bytes it wrote; read, decoded: readAddrSpec's error and result;
\* left: the bytes readAddrSpec left unread.
NoCodec ==
    [pc |-> "idle", addr |-> NilAddr, sent |-> "nil", wire |-> <<>>,
     read |-> "nil", decoded |-> NilAddr, left |-> 0]

InitNoCodec == codec = NoCodec

InitSessIdle ==
    /\ conf = Config(<<>>, NoCredentials, "nil", "nil", "nil")
    /\ server = New(conf)
    /\ pc = "idle"
    /\ io = NewConn(-1)
    /\ err = "running"
    /\ auth = NoAuthentication
    /\ req = NoRequest
    /\ InitNoRelay

(***************************************************************************)
(* Listener life cycle                                                     *)
(***************************************************************************)
NumAccepted == Cardinality({c \in ConnIds : handlers[c] # "none"})
Running == {c \in ConnIds : handlers[c] = "running"}
NextConn == NumAccepted + 1

InitLoopIdle ==
    /\ loopPc = "idle"
    /\ lkind = "tcp"
    /\ wait = FALSE
    /\ wg = 0
    /\ listener = "open"
    /\ backlog = 0
    /\ handlers = [c \in ConnIds |-> "none"]
    /\ tracked = [c \in ConnIds |-> FALSE]
    /\ stopPc = [p \in Stoppers |-> "idle"]
    /\ stopArg = [p \in Stoppers |-> FALSE]
    /\ signalled = FALSE
    /\ arrived = 0

InitServe ==
    /\ InitSessIdle
    /\ InitLoopIdle
    /\ InitNoCodec

\* A client connects to the listening socket (it waits in the backlog).
ClientConnect ==
    /\ listener = "open"
    /\ arrived < MaxConns
    /\ arrived' = arrived + 1
    /\ backlog' = backlog + 1
    /\ UNCHANGED <<loopPc, lkind, wait, wg, listener, handlers, tracked,
                   stopPc, stopArg, signalled,
                   sessVars, relayVars, codecVars>>

\* Serve: a *net.TCPListener is served by asyncServe, any other listener by
\* the plain accept loop.
Serve ==
    /\ loopPc = "idle"
    /\ \E k \in {"tcp", "other"} :
          /\ lkind' = k
          /\ loopPc' = IF k = "tcp" THEN "select" ELSE "plainAccept"
    /\ UNCHANGED <<wait, wg, listener, backlog, handlers, tracked,
                   stopPc, stopArg, signalled, arrived,
                   sessVars, relayVars, codecVars>>

\* Serve, plain loop: conn, err := l.Accept(); go s.ServeConn(conn)
ServeAccept ==
    /\ loopPc = "plainAccept"
    /\ backlog > 0
    /\ backlog' = backlog - 1
    /\ handlers' = [handlers EXCEPT ![NextConn] = "running"]
    /\ UNCHANGED <<loopPc, lkind, wait, wg, listener, tracked,
                   stopPc, stopArg, signalled, arrived,
                   sessVars, relayVars, codecVars>>

\* Serve, plain loop: Accept fails, Serve returns the error.
ServeAcceptError ==
    /\ loopPc = "plainAccept"
    /\ loopPc' = "returned"
    /\ UNCHANGED <<lkind, wait, wg, listener, backlog, handlers, tracked,
                   stopPc, stopArg, signalled, arrived,
                   sessVars, relayVars, codecVars>>

\* Stop(w): s.ch <- w on the unbuffered channel; the caller blocks in the send.
Stop(p, w) ==
    /\ loopPc # "killed"
    /\ stopPc[p] = "idle"
    /\ stopPc' = [stopPc EXCEPT ![p] = "sending"]
    /\ stopArg' = [stopArg EXCEPT ![p] = w]
    /\ UNCHANGED <<loopPc, lkind, wait, wg, listener, backlog, handlers,
                   tracked, arrived, signalled,
                   sessVars, relayVars, codecVars>>

Senders == {p \in Stoppers : stopPc[p] = "sending"}

\* Variant of asyncServeRecv that forgets the break: the loop goes on.
asyncServeRecv_continue ==
    /\ loopPc = "select"
    /\ \E p \in Senders :
          /\ wait' = stopArg[p]
          /\ stopPc' = [stopPc EXCEPT ![p] = "returned"]
    /\ signalled' = TRUE
    /\ loopPc' = "select"
    /\ UNCHANGED <<lkind, wg, listener, backlog, handlers, tracked, stopArg,
                   arrived,
                   sessVars, relayVars, codecVars>>

\* asyncServe, select: case wait = <-s.ch, then break.  The rendezvous
\* completes the sender's Stop call.
asyncServeRecv ==
    /\ loopPc = "select"
    /\ \E p \in Senders :
          /\ wait' = stopArg[p]
          /\ stopPc' = [stopPc EXCEPT ![p] = "returned"]
    /\ signalled' = TRUE
    /\ loopPc' = "afterLoop"
    /\ UNCHANGED <<lkind, wg, listener, backlog, handlers, tracked, stopArg,
                   arrived,
                   sessVars, relayVars, codecVars>>

\* Variant of asyncServeDefault that takes the default case although a
\* sender is ready.
asyncServeDefault_ignoresSender ==
    /\ loopPc = "select"
    /\ loopPc' = "accept"
    /\ UNCHANGED <<lkind, wait, wg, listener, backlog, handlers, tracked,
                   stopPc, stopArg, signalled, arrived,
                   sessVars, relayVars, codecVars>>

\* asyncServe, select: default is taken only when no sender is ready;
\* l.SetDeadline(now + 1s); l.Accept() is entered.
asyncServeDefault ==
    /\ loopPc = "select"
    /\ Senders = {}
    /\ loopPc' = "accept"
    /\ UNCHANGED <<lkind, wait, wg, listener, backlog, handlers, tracked,
                   stopPc, stopArg, signalled, arrived,
                   sessVars, relayVars, codecVars>>

\* asyncServe: Accept returned a connection: wg.Add(1); go func(){...}();
\* continue.
asyncServeAccept ==
    /\ loopPc = "accept"
    /\ backlog > 0
    /\ backlog' = backlog - 1
    /\ wg' = wg + 1
    /\ handlers' = [handlers EXCEPT ![NextConn] = "running"]
    /\ tracked' = [tracked EXCEPT ![NextConn] = TRUE]
    /\ loopPc' = "select"
    /\ UNCHANGED <<lkind, wait, listener, stopPc, stopArg, signalled, arrived,
                   sessVars, relayVars, codecVars>>

\* asyncServe: Accept hit the one second deadline: continue.
asyncServeTimeout ==
    /\ loopPc = "accept"
    /\ loopPc' = "select"
    /\ UNCHANGED <<lkind, wait, wg, listener, backlog, handlers, tracked,
                   stopPc, stopArg, signalled, arrived,
                   sessVars, relayVars, codecVars>>

\* asyncServe: Accept failed with another error: return err (the listener is
\* not closed on this path).
asyncServeAcceptError ==
    /\ loopPc = "accept"
    /\ loopPc' = "returned"
    /\ UNCHANGED <<lkind, wait, wg, listener, backlog, handlers, tracked,
                   stopPc, stopArg, signalled, arrived,
                   sessVars, relayVars, codecVars>>

\* Variant of asyncServeAfterLoop that never waits for the WaitGroup.
asyncServeAfterLoop_neverWait ==
    /\ loopPc = "afterLoop"
    /\ loopPc' = "close"
    /\ UNCHANGED <<lkind, wait, wg, listener, backlog, handlers, tracked,
                   stopPc, stopArg, signalled, arrived,
                   sessVars, relayVars, codecVars>>

\* Variant of asyncServeAfterLoop that waits whatever the signal says.
asyncServeAfterLoop_alwaysWait ==
    /\ loopPc = "afterLoop"
    /\ loopPc' = "wgWait"
    /\ UNCHANGED <<lkind, wait, wg, listener, backlog, handlers, tracked,
                   stopPc, stopArg, signalled, arrived,
                   sessVars, relayVars, codecVars>>

\* asyncServe after the loop: if wait { wg.Wait() }
asyncServeAfterLoop ==
    /\ loopPc = "afterLoop"
    /\ loopPc' = IF wait THEN "wgWait" ELSE "close"
    /\ UNCHANGED <<lkind, wait, wg, listener, backlog, handlers, tracked,
                   stopPc, stopArg, signalled, arrived,
                   sessVars, relayVars, codecVars>>

\* wg.Wait() returns when the counter is zero.
asyncServeWgWait ==
    /\ loopPc = "wgWait"
    /\ wg = 0
    /\ loopPc' = "close"
    /\ UNCHANGED <<lkind, wait, wg, listener, backlog, handlers, tracked,
                   stopPc, stopArg, signalled, arrived,
                   sessVars, relayVars, codecVars>>

\* l.Close(); return nil
asyncServeClose ==
    /\ loopPc = "close"
    /\ listener' = "closed"
    /\ loopPc' = "returned"
    /\ UNCHANGED <<lkind, wait, wg, backlog, handlers, tracked, stopPc,
                   stopArg, signalled, arrived,
                   sessVars, relayVars, codecVars>>

\* Variant of HandlerReturn whose handler returns without wg.Done().
HandlerReturn_noDone(c) ==
    /\ handlers[c] = "running"
    /\ handlers' = [handlers EXCEPT ![c] = "done"]
    /\ UNCHANGED <<loopPc, lkind, wait, wg, listener, backlog, tracked, stopPc,
                   stopArg, signalled, arrived,
                   sessVars, relayVars, codecVars>>

\* The goroutine of one connection: s.ServeConn(conn) returns (with or without
\* error, the result is dropped) and the deferred wg.Done() runs when the
\* goroutine was started by asyncServe.
HandlerReturn(c) ==
    /\ handlers[c] = "running"
    /\ handlers' = [handlers EXCEPT ![c] = "done"]
    /\ wg' = IF tracked[c] THEN wg - 1 ELSE wg
    /\ UNCHANGED <<loopPc, lkind, wait, listener, backlog, tracked, stopPc,
                   stopArg, signalled, arrived,
                   sessVars, relayVars, codecVars>>

\* The goroutine of one connection panics in handleConnect, handleBind or
\* handleAssociate at conn.RemoteAddr().(*net.TCPAddr): the connections of a
\* listener that is not a *net.TCPListener have no TCP peer address.  Nothing
\* recovers the panic: the process ends, and with it the accept loop, the
\* listening socket and every other handler.
HandlerPanic(c) ==
    /\ lkind = "other"
    /\ handlers[c] = "running"
    /\ handlers' = [k \in ConnIds |-> IF handlers[k] = "running" THEN "killed"
                                      ELSE handlers[k]]
    /\ loopPc' = "killed"
    /\ listener' = "closed"
    /\ UNCHANGED <<lkind, wait, wg, backlog, tracked, stopPc, stopArg,
                   signalled, arrived,
                   sessVars, relayVars, codecVars>>

NextServe ==
    \/ ClientConnect
    \/ Serve
    \/ ServeAccept
    \/ ServeAcceptError
    \/ \E p \in Stoppers, w \in BOOLEAN : Stop(p, w)
    \/ asyncServeRecv
    \/ asyncServeDefault
    \/ asyncServeAccept
    \/ asyncServeTimeout
    \/ asyncServeAcceptError
    \/ asyncServeAfterLoop
    \/ asyncServeWgWait
    \/ asyncServeClose
    \/ \E c \in ConnIds : HandlerReturn(c)
    \/ \E c \in ConnIds : HandlerPanic(c)

SpecServe == InitServe /\ [][NextServe]_vars

\* The goroutine of asyncServe is scheduled: a receive that is possible at
\* the select is made, and Accept returns, at the latest when the deadline
\* of one second set before it has passed.
ServeFairness ==
    /\ WF_vars(asyncServeRecv)
    /\ WF_vars(asyncServeAccept \/ asyncServeTimeout \/ asyncServeAcceptError)

SpecServeLive == SpecServe /\ ServeFairness

(***************************************************************************)
(* The address codec: sendReply and readAddrSpec applied to one AddrSpec   *)
(***************************************************************************)
IPv4Mapped == v4InV6Prefix \o IPv4a
LongName == [i \in 1..255 |-> 97]
CodecNames == (SeqsUpTo({97, 46}, MaxNameLen) \ {<<>>}) \cup {LongName}
CodecPorts == {0, 80, 255, 256, 65535}

\* AddrSpecs of type IPv4, IPv6 and domain name.
CodecAddrs ==
    {AddrSpec(<<>>, ip, port) :
        ip \in {IPv4a, IPv4b, IPv6a, IPv4Mapped}, port \in CodecPorts}
    \cup {AddrSpec(name, <<>>, port) : name \in CodecNames, port \in CodecPorts}

InitCodec ==
    /\ InitSessIdle
    /\ InitLoopIdle
    /\ \E a \in CodecAddrs : codec = [NoCodec EXCEPT !.pc = "encode", !.addr = a]

\* sendReply(w, successReply, &addr) into a buffer: wire is what follows the
\* version, reply and reserved bytes.
CodecEncode ==
    /\ codec.pc = "encode"
    /\ LET s == sendReply(NewConn(-1), successReply, codec.addr) IN
       codec' = [codec EXCEPT !.pc = "decode", !.sent = s.e,
                              !.wire = Drop(s.c.out, 3)]
    /\ UNCHANGED <<serveVars, sessVars, relayVars>>

\* readAddrSpec(r) on a reader that delivers the encoded bytes.
CodecDecode ==
    /\ codec.pc = "decode"
    /\ LET r == readAddrSpec(Arrive(NewConn(-1), codec.wire)) IN
       codec' = [codec EXCEPT !.pc = "done", !.read = r.e, !.decoded = r.d,
                              !.left = Len(r.c.in)]
    /\ UNCHANGED <<serveVars, sessVars, relayVars>>

NextCodec == CodecEncode \/ CodecDecode

SpecCodec == InitCodec /\ [][NextCodec]_vars

(***************************************************************************)
(* Server construction: New (socks5.go)                                    *)
(***************************************************************************)
NoServer == [config |-> Config(<<>>, NoCredentials, "nil", "nil", "nil"),
             authMethods |-> <<>>]

InitNew ==
    /\ InitLoopIdle
    /\ conf \in NewConfigs
    /\ server = NoServer
    /\ pc = "new"
    /\ io = NewConn(-1)
    /\ err = "running"
    /\ auth = NoAuthentication
    /\ req = NoRequest
    /\ InitNoRelay
    /\ InitNoCodec

\* New(conf): conf stays the configuration as it was handed in, server.config
\* is the configuration after New has filled it in.
NewServer ==
    /\ pc = "new"
    /\ server' = New(conf)
    /\ pc' = "built"
    /\ UNCHANGED <<conf, io, err, auth, req, serveVars, relayVars, codecVars>>

NextNew == NewServer

SpecNew == InitNew /\ [][NextNew]_vars

(***************************************************************************)
(* One connection session: ServeConn (socks5.go)                           *)
(***************************************************************************)
Init ==
    /\ InitLoopIdle
    /\ conf \in Configs
    /\ server = New(conf)
    /\ pc = "version"
    /\ \E w \in WriteCaps : io = NewConn(w)
    /\ err = "running"
    /\ auth = NoAuthentication
    /\ req = NoRequest
    /\ InitNoRelay
    /\ InitNoCodec

\* Variant of ServeConnVersion that goes on to the request without
\* authenticating.
ServeConnVersion_skipAuth ==
    /\ pc = "version"
    /\ \E bytes \in VersionStreams :
          LET version == Read(Call(Arrive(io, bytes), "readVersion"), 1) IN
          /\ io' = version.c
          /\ IF ~version.ok
             THEN err' = "FailedToGetVersion" /\ pc' = "closed"
             ELSE IF version.b[1] # socks5Version
             THEN err' = "UnsupportedVersion" /\ pc' = "closed"
             ELSE err' = err /\ pc' = "request"
    /\ UNCHANGED <<conf, server, auth, req, serveVars, relayVars, codecVars>>

\* Variant of ServeConnVersion that tells the client of a version it rejects.
ServeConnVersion_rejects ==
    /\ pc = "version"
    /\ \E bytes \in VersionStreams :
          LET version == Read(Call(Arrive(io, bytes), "readVersion"), 1) IN
          IF ~version.ok
          THEN io' = version.c /\ err' = "FailedToGetVersion" /\ pc' = "closed"
          ELSE IF version.b[1] # socks5Version
          THEN /\ io' = Write(version.c, <<socks5Version, noAcceptable>>).c
               /\ err' = "UnsupportedVersion" /\ pc' = "closed"
          ELSE io' = version.c /\ err' = err /\ pc' = "authenticate"
    /\ UNCHANGED <<conf, server, auth, req, serveVars, relayVars, codecVars>>

\* ServeConn: read the version byte and test it.
ServeConnVersion ==
    /\ pc = "version"
    /\ \E bytes \in VersionStreams :
          LET version == Read(Call(Arrive(io, bytes), "readVersion"), 1) IN
          /\ io' = version.c
          /\ IF ~version.ok
             THEN err' = "FailedToGetVersion" /\ pc' = "closed"
             ELSE IF version.b[1] # socks5Version
             THEN err' = "UnsupportedVersion" /\ pc' = "closed"
             ELSE err' = err /\ pc' = "authenticate"
    /\ UNCHANGED <<conf, server, auth, req, serveVars, relayVars, codecVars>>

\* Variant of ServeConnAuthenticate that drops the result of authenticate.
ServeConnAuthenticate_ignoreError ==
    /\ pc = "authenticate"
    /\ \E bytes \in MethodStreams, sub \in UserPassStreams :
          LET r == authenticate(server, Arrive(io, bytes), sub) IN
          /\ io' = r.c
          /\ auth' = r.auth
          /\ err' = err /\ pc' = "request"
    /\ UNCHANGED <<conf, server, req, serveVars, relayVars, codecVars>>

\* ServeConn: if err := s.authenticate(conn, bufConn); err != nil { return err }
ServeConnAuthenticate ==
    /\ pc = "authenticate"
    /\ \E bytes \in MethodStreams, sub \in UserPassStreams :
          LET r == authenticate(server, Arrive(io, bytes), sub) IN
          /\ io' = r.c
          /\ auth' = r.auth
          /\ IF r.err # "nil"
             THEN err' = r.err /\ pc' = "closed"
             ELSE err' = err /\ pc' = "request"
    /\ UNCHANGED <<conf, server, req, serveVars, relayVars, codecVars>>

\* The end of a step of handleRequest: ServeConn returns its error, or
\* returns nil, or goes on.
Continue(o) ==
    /\ io' = o.c
    /\ req' = o.req
    /\ pc' = o.pc
    /\ err' = IF o.pc \in {"closed", "crashed"} THEN o.err ELSE err

\* ServeConn: s.handleRequest(conn, bufConn), up to the destination address.
ServeConnRequest ==
    /\ pc = "request"
    /\ \E bytes \in RequestStreams : Continue(handleRequestRead(Arrive(io, bytes)))
    /\ UNCHANGED <<conf, server, auth, serveVars, relayVars, codecVars>>

\* handleRequest: name resolution and rewrite.
ServeConnResolve ==
    /\ pc = "resolve"
    /\ \E env \in ResolveEnvs : Continue(handleRequestResolve(io, req, env))
    /\ UNCHANGED <<conf, server, auth, serveVars, relayVars, codecVars>>

\* handleRequest: the command's handler up to its return or to the relay.
ServeConnDispatch ==
    /\ pc = "dispatch"
    /\ \E env \in DispatchEnvs : Continue(dispatch(io, req, env))
    /\ UNCHANGED <<conf, server, auth, serveVars, relayVars, codecVars>>

\* handleConnect: the first outcome on errCh ends the session; the deferred
\* target.Close() and conn.Close() run.
ServeConnRelayEnd ==
    /\ pc = "relay"
    /\ \E e \in {"nil", "copyError"} : err' = e
    /\ req' = [req EXCEPT !.target = "closed"]
    /\ pc' = "closed"
    /\ UNCHANGED <<conf, server, io, auth, serveVars, relayVars, codecVars>>

Next ==
    \/ ServeConnVersion
    \/ ServeConnAuthenticate
    \/ ServeConnRequest
    \/ ServeConnResolve
    \/ ServeConnDispatch
    \/ ServeConnRelayEnd

Spec == Init /\ [][Next]_vars

(***************************************************************************)
(* The relay of an established CONNECT: handleConnect from "Start proxying" *)
(* on, and the two proxy goroutines (request.go)                           *)
(***************************************************************************)
\* What the client and the target send through the relay, byte by byte.
ClientData == [i \in 1..MaxRelayBytes |-> 100 + i]
TargetData == [i \in 1..MaxRelayBytes |-> 200 + i]

\* The session of a client that has negotiated NO_AUTH with a default server
\* and is about to send its request: ServeConn up to the call of handleRequest.
InitRelay ==
    /\ InitLoopIdle
    /\ conf = Config(<<>>, NoCredentials, "custom", "custom", "custom")
    /\ server = New(conf)
    /\ LET version == Read(Call(Arrive(NewConn(-1), <<socks5Version>>), "readVersion"), 1)
           a == authenticate(New(conf), Arrive(version.c, <<1, noAuth>>), <<>>) IN
       /\ io = a.c
       /\ auth = a.auth
    /\ pc = "request"
    /\ err = "running"
    /\ req = NoRequest
    /\ InitNoRelay
    /\ InitNoCodec

\* ServeConn: s.handleRequest(conn, bufConn) when the client sent data right
\* behind its request: bufConn took the data into its buffer with the request.
ServeConnRequestPipelined ==
    /\ pc = "request"
    /\ \E bytes \in RequestFrames, n \in 1..MaxRelayBytes :
          LET data == SubSeq(ClientData, 1, n)
              o == handleRequestRead(Arrive(io, bytes \o data)) IN
          /\ Continue(o)
          /\ relay' = [relay EXCEPT !.clientSent = data, !.pipelined = n,
                                    !.buffered = Len(o.c.in)]
    /\ UNCHANGED <<conf, server, auth, serveVars, codecVars>>

\* The client sends its next byte while the server works on the request or
\* relays.
ClientSend ==
    /\ pc \in {"resolve", "dispatch", "relay"}
    /\ relay.clientEnd = "open"
    /\ Len(relay.clientSent) < MaxRelayBytes
    /\ LET b == ClientData[Len(relay.clientSent) + 1] IN
       /\ io' = Arrive(io, <<b>>)
       /\ relay' = [relay EXCEPT !.clientSent = Append(@, b)]
    /\ UNCHANGED <<conf, server, pc, err, auth, req, serveVars, codecVars>>

\* The client closes its sending side, or the whole connection: writes to it
\* fail from then on.
ClientClose ==
    /\ pc = "relay"
    /\ relay.clientEnd = "open"
    /\ \E whole \in BOOLEAN :
          /\ relay' = [relay EXCEPT !.clientEnd = IF whole THEN "closed" ELSE "shutdown"]
          /\ io' = IF whole THEN [io EXCEPT !.wcap = 0] ELSE io
    /\ UNCHANGED <<conf, server, pc, err, auth, req, serveVars, codecVars>>

\* The target sends its next byte.
TargetSend ==
    /\ req.target = "open"
    /\ relay.targetEnd = "open"
    /\ Len(relay.targetSent) < MaxRelayBytes
    /\ LET b == TargetData[Len(relay.targetSent) + 1] IN
       relay' = [relay EXCEPT !.targetSent = Append(@, b), !.targetIn = Append(@, b)]
    /\ UNCHANGED <<sessVars, serveVars, codecVars>>

\* The target closes its sending side, or the whole connection.
TargetClose ==
    /\ req.target = "open"
    /\ relay.targetEnd = "open"
    /\ \E whole \in BOOLEAN :
          relay' = [relay EXCEPT !.targetEnd = IF whole THEN "closed" ELSE "shutdown"]
    /\ UNCHANGED <<sessVars, serveVars, codecVars>>

\* The goroutines of handleConnect exist once it has started them.
Proxying(name) == Called("proxy") /\ relay.task[name].pc # "done"

CopyReturns(name, result) ==
    [relay EXCEPT !.task[name] = [pc |-> "send", chunk |-> <<>>, result |-> result]]

\* Variant of proxyTargetRead that reads the connection, not bufConn: what
\* bufConn holds in its buffer is passed over.
proxyTargetRead_fromConn ==
    /\ Proxying("target") /\ relay.task["target"].pc = "copy"
    /\ IF pc = "closed"
       THEN relay' = CopyReturns("target", "error") /\ io' = io
       ELSE IF Len(io.in) > relay.buffered
       THEN LET skipped == Read(io, relay.buffered)
                chunk == Read(skipped.c, Len(skipped.c.in)) IN
            /\ io' = chunk.c
            /\ relay' = [relay EXCEPT !.buffered = 0,
                                      !.task["target"].pc = "write",
                                      !.task["target"].chunk = chunk.b]
       ELSE /\ relay.clientEnd # "open"
            /\ relay' = CopyReturns("target", "nil") /\ io' = io
    /\ UNCHANGED <<conf, server, pc, err, auth, req, serveVars, codecVars>>

\* proxy("target", target, bufConn, ...): io.Copy reads from bufConn, first
\* what bufConn holds, then what the connection delivers; EOF ends it without
\* error, a closed connection with one.
proxyTargetRead ==
    /\ Proxying("target") /\ relay.task["target"].pc = "copy"
    /\ IF relay.buffered > 0 \/ (io.in # <<>> /\ pc # "closed")
       THEN LET chunk == Read(io, IF relay.buffered > 0 THEN relay.buffered ELSE Len(io.in)) IN
            /\ io' = chunk.c
            /\ relay' = [relay EXCEPT !.buffered = 0,
                                      !.task["target"].pc = "write",
                                      !.task["target"].chunk = chunk.b]
       ELSE IF pc = "closed"
       THEN relay' = CopyReturns("target", "error") /\ io' = io
       ELSE /\ relay.clientEnd # "open"
            /\ relay' = CopyReturns("target", "nil") /\ io' = io
    /\ UNCHANGED <<conf, server, pc, err, auth, req, serveVars, codecVars>>

\* proxy("target", ...): io.Copy writes what it read to the target.
proxyTargetWrite ==
    /\ Proxying("target") /\ relay.task["target"].pc = "write"
    /\ IF req.target = "closed" \/ relay.targetEnd = "closed"
       THEN relay' = CopyReturns("target", "error")
       ELSE relay' = [relay EXCEPT !.targetGot = @ \o relay.task["target"].chunk,
                                  !.task["target"].pc = "copy",
                                  !.task["target"].chunk = <<>>]
    /\ UNCHANGED <<sessVars, serveVars, codecVars>>

\* proxy("client", conn, target, ...): io.Copy reads from the target.
proxyClientRead ==
    /\ Proxying("client") /\ relay.task["client"].pc = "copy"
    /\ IF req.target = "closed"
       THEN relay' = CopyReturns("client", "error")
       ELSE IF relay.targetIn # <<>>
       THEN relay' = [relay EXCEPT !.targetIn = <<>>,
                                  !.task["client"].pc = "write",
                                  !.task["client"].chunk = relay.targetIn]
       ELSE /\ relay.targetEnd # "open"
            /\ relay' = CopyReturns("client", "nil")
    /\ UNCHANGED <<sessVars, serveVars, codecVars>>

\* proxy("client", ...): io.Copy writes what it read to the client.
proxyClientWrite ==
    /\ Proxying("client") /\ relay.task["client"].pc = "write"
    /\ IF pc = "closed"
       THEN relay' = CopyReturns("client", "error") /\ io' = io
       ELSE LET w == Write(io, relay.task["client"].chunk) IN
            /\ io' = w.c
            /\ relay' = IF w.ok
                        THEN [relay EXCEPT !.task["client"].pc = "copy",
                                           !.task["client"].chunk = <<>>]
                        ELSE CopyReturns("client", "error")
    /\ UNCHANGED <<conf, server, pc, err, auth, req, serveVars, codecVars>>

\* Variant of proxySend on a channel made with capacity one.
proxySend_capacityOne(name) ==
    /\ Proxying(name) /\ relay.task[name].pc = "send"
    /\ Len(relay.errCh) < 1
    /\ relay' = [relay EXCEPT !.errCh = Append(@, relay.task[name].result),
                              !.task[name].pc = "done"]
    /\ UNCHANGED <<sessVars, serveVars, codecVars>>

\* proxy: after the sleep, errCh <- err. The send blocks while the channel,
\* made by make(chan error, 2), is full.
proxySend(name) ==
    /\ Proxying(name) /\ relay.task[name].pc = "send"
    /\ Len(relay.errCh) < errChCap
    /\ relay' = [relay EXCEPT !.errCh = Append(@, relay.task[name].result),
                              !.task[name].pc = "done"]
    /\ UNCHANGED <<sessVars, serveVars, codecVars>>

\* Variant of handleConnectWait without the deferred target.Close().
handleConnectWait_targetLeftOpen ==
    /\ pc = "relay"
    /\ relay.errCh # <<>>
    /\ err' = IF Head(relay.errCh) = "nil" THEN "nil" ELSE "copyError"
    /\ relay' = [relay EXCEPT !.errCh = Tail(@)]
    /\ pc' = "closed"
    /\ UNCHANGED <<conf, server, io, auth, req, serveVars, codecVars>>

\* handleConnect: e := <-errCh; return e. The deferred target.Close() and
\* ServeConn's deferred conn.Close() run.
handleConnectWait ==
    /\ pc = "relay"
    /\ relay.errCh # <<>>
    /\ err' = IF Head(relay.errCh) = "nil" THEN "nil" ELSE "copyError"
    /\ relay' = [relay EXCEPT !.errCh = Tail(@)]
    /\ req' = [req EXCEPT !.target = "closed"]
    /\ pc' = "closed"
    /\ UNCHANGED <<conf, server, io, auth, serveVars, codecVars>>

NextRelay ==
    \/ ServeConnRequest
    \/ ServeConnRequestPipelined
    \/ ServeConnResolve
    \/ ServeConnDispatch
    \/ ClientSend
    \/ ClientClose
    \/ TargetSend
    \/ TargetClose
    \/ proxyTargetRead
    \/ proxyTargetWrite
    \/ proxyClientRead
    \/ proxyClientWrite
    \/ \E name \in ProxyNames : proxySend(name)
    \/ handleConnectWait

SpecRelay == InitRelay /\ [][NextRelay]_vars

\* The goroutines and the handler are scheduled: a step of theirs that stays
\* possible is taken.
RelayFairness ==
    /\ WF_vars(proxyTargetRead)
    /\ WF_vars(proxyTargetWrite)
    /\ WF_vars(proxyClientRead)
    /\ WF_vars(proxyClientWrite)
    /\ \A name \in ProxyNames : WF_vars(proxySend(name))
    /\ WF_vars(handleConnectWait)

SpecRelayLive == SpecRelay /\ RelayFairness

(***************************************************************************)
(* Properties of one connection session                                    *)
(***************************************************************************)
StartsWith(q, prefix) ==
    Len(q) >= Len(prefix) /\ SubSeq(q, 1, Len(prefix)) = prefix

Range(q) == {q[i] : i \in DOMAIN q}

StageSequence == <<"readVersion", "authenticate", "handleRequest", "dispatch">>

IsStageMarker(name) == name \in Range(StageSequence)

\* The stage a call belongs to; 0 for sendReply, which request parsing and
\* dispatch both use.
StageOf(name) ==
    CASE name = "readVersion" -> 1
      [] name \in {"authenticate", "Authenticate", "Valid"} -> 2
      [] name \in {"handleRequest", "readAddrSpec", "Resolve", "Rewrite"} -> 3
      [] name \in {"dispatch", "AllowConnect", "AllowBind", "AllowAssociate",
                   "DialTCP", "proxy"} -> 4
      [] OTHER -> 0

StagesEntered == SelectSeq(io.calls, IsStageMarker)

\* C5: in every session the stages entered so far are an initial part of
\* version, negotiation, request parsing, dispatch (none twice, none skipped,
\* none out of order), every call belongs to the stage entered last or an
\* earlier call to an earlier stage, no reply is sent before request parsing,
\* and ServeConn is where the stages entered say it is.
C5_StageOrder ==
    /\ StagesEntered \in Prefixes(StageSequence)
    /\ \A i, j \in DOMAIN io.calls :
          (i < j /\ StageOf(io.calls[i]) > 0 /\ StageOf(io.calls[j]) > 0)
              => StageOf(io.calls[i]) <= StageOf(io.calls[j])
    /\ \A i \in DOMAIN io.calls :
          io.calls[i] = "sendReply"
              => \E k \in 1..(i - 1) : io.calls[k] = "handleRequest"
    /\ pc = "version" => io.calls = <<>>
    /\ pc = "authenticate" => StagesEntered = SubSeq(StageSequence, 1, 1)
    /\ pc = "request" => StagesEntered = SubSeq(StageSequence, 1, 2)
    /\ pc \in {"resolve", "dispatch"} => StagesEntered = SubSeq(StageSequence, 1, 3)
    /\ pc = "relay" => StagesEntered = StageSequence

\* C5 witness: a session went through all four stages and is relaying.
C5_Witness ==
    pc = "relay" /\ StagesEntered = StageSequence /\ Called("Resolve") /\ Called("Rewrite")

NegotiationErrors ==
    {"FailedToGetAuthMethods", "NoSupportedAuth", "UserAuthFailed",
     "UnsupportedAuthVersion", "read", "write"}

NegotiationWrites ==
    {<<>>, <<socks5Version, noAuth>>, <<socks5Version, userPassAuth>>,
     <<socks5Version, noAcceptable>>,
     <<socks5Version, userPassAuth, userAuthVersion, authSuccess>>,
     <<socks5Version, userPassAuth, userAuthVersion, authFailure>>}

\* C6: a session whose negotiation failed is closed without any step of
\* request processing: no request byte parsed, no resolver, rewriter, RuleSet
\* or dial call, no reply; and a session that did start request processing
\* has an invoked Authenticator whose exchange succeeded.
C6_AuthGate ==
    /\ err \in NegotiationErrors =>
          /\ pc = "closed"
          /\ req = NoRequest
          /\ \A i \in DOMAIN io.calls : StageOf(io.calls[i]) \in {1, 2}
          /\ io.tried \in NegotiationWrites
    /\ Called("handleRequest") =>
          /\ auth.cator # NoAuthenticator
          /\ auth.cator.kind = "NoAuth" =>
                StartsWith(io.out, <<socks5Version, noAuth>>)
          /\ auth.cator.kind = "UserPass" =>
                /\ <<auth.user, auth.pass>> \in auth.cator.store
                /\ StartsWith(io.out, <<socks5Version, userPassAuth,
                                        userAuthVersion, authSuccess>>)

\* C6 witness: a session was refused for invalid credentials.
C6_Witness ==
    err = "UserAuthFailed" /\ pc = "closed" /\ Called("Valid")

MethodsRead == Called("authenticate") /\ err # "FailedToGetAuthMethods"

Registered(code) == code \in DOMAIN server.authMethods

\* C7: the Authenticator invoked is the one the registry holds for the first
\* method of the client's list that is registered; when none is, no
\* Authenticator is invoked.
C7_ClientOrder ==
    MethodsRead =>
        /\ \A i \in DOMAIN auth.methods :
              (/\ Registered(auth.methods[i])
               /\ \A j \in 1..(i - 1) : ~Registered(auth.methods[j]))
                  => /\ auth.cator = server.authMethods[auth.methods[i]]
                     /\ Called("Authenticate")
        /\ (\A i \in DOMAIN auth.methods : ~Registered(auth.methods[i]))
              => auth.cator = NoAuthenticator

\* C7 witness: the client listed USER_PASS before NO_AUTH, the server had
\* registered NO_AUTH before USER_PASS, and USER_PASS was invoked.
C7_Witness ==
    /\ auth.methods = <<userPassAuth, noAuth>>
    /\ conf.AuthMethods = <<NoAuthAuthenticator, UserPassAuthenticator(StoreA)>>
    /\ auth.cator = UserPassAuthenticator(StoreA)

\* C8: when no offered method is registered (the list may be empty) the only
\* bytes the server writes are {5, 0xFF} (they reach the client unless the
\* write fails), authenticate returns NoSupportedAuth and no Authenticator
\* exchange is invoked.
C8_NoSupportedAuth ==
    (MethodsRead /\ \A i \in DOMAIN auth.methods : ~Registered(auth.methods[i]))
        => /\ err = "NoSupportedAuth"
           /\ pc = "closed"
           /\ io.tried = <<socks5Version, noAcceptable>>
           /\ io.out = IF io.wfail THEN <<>> ELSE io.tried
           /\ auth.cator = NoAuthenticator
           /\ ~Called("Authenticate") /\ ~Called("Valid")

\* C8 witness: a client offering only NO_AUTH to a server that registered
\* only USER_PASS has been answered {5, 0xFF}.
C8_Witness ==
    /\ auth.methods = <<noAuth>>
    /\ DOMAIN server.authMethods = {userPassAuth}
    /\ io.out = <<socks5Version, noAcceptable>>
    /\ err = "NoSupportedAuth"

DefaultAuthConfig == conf.AuthMethods = <<>> /\ conf.Credentials.nil

\* C9: on a server built without credential store and without auth methods,
\* the negotiation of a client whose list holds NO_AUTH invokes the NO_AUTH
\* exchange, which writes exactly {5, 0} and reads no byte beyond the method
\* list; on a connection that takes the write the exchange succeeds and the
\* session is at request parsing (a failed write is the only failure).
C9_NoAuthNegotiation ==
    [][(/\ pc = "authenticate"
        /\ DefaultAuthConfig
        /\ err' # "FailedToGetAuthMethods"
        /\ \E i \in DOMAIN auth'.methods : auth'.methods[i] = noAuth)
       => /\ auth'.cator = NoAuthAuthenticator
          /\ io'.tried = <<socks5Version, noAuth>>
          /\ io'.consumed = io.consumed + 1 + Len(auth'.methods)
          /\ auth'.cred = "none"
          /\ IF io'.wfail
             THEN io'.out = <<>> /\ err' = "write" /\ pc' = "closed"
             ELSE io'.out = <<socks5Version, noAuth>> /\ err' = "running"
                  /\ pc' = "request"]_vars

\* C9 witness: a default server answered {5, 0} and the session is at the
\* request.
C9_Witness ==
    /\ DefaultAuthConfig
    /\ pc = "request"
    /\ io.out = <<socks5Version, noAuth>>
    /\ auth.methods = <<noAuth>>

\* C10: whenever the USER_PASS exchange hands a pair to the CredentialStore,
\* the bytes the server writes in the whole negotiation are {5, 2, 1, 0} when
\* the store accepts the pair and {5, 2, 1, 1} when it rejects it; on a
\* connection that takes the writes the accepted session goes on without
\* error and the rejected one ends with UserAuthFailed, never NoSupportedAuth
\* (the status is written before the error is returned).
C10_UserPassNegotiation ==
    [][(pc = "authenticate" /\ auth'.cred # "none")
       => LET accepted == <<auth'.user, auth'.pass>> \in server.authMethods[userPassAuth].store
          IN /\ auth'.cator = server.authMethods[userPassAuth]
             /\ auth'.cator.kind = "UserPass"
             /\ io'.tried = <<socks5Version, userPassAuth, userAuthVersion,
                              IF accepted THEN authSuccess ELSE authFailure>>
             /\ err' # "NoSupportedAuth"
             /\ IF io'.wfail
                THEN io'.out = <<socks5Version, userPassAuth>>
                     /\ err' = "write" /\ pc' = "closed"
                ELSE /\ io'.out = io'.tried
                     /\ accepted => (err' = "running" /\ pc' = "request")
                     /\ ~accepted => (err' = "UserAuthFailed" /\ pc' = "closed")]_vars

\* C10 witness: a rejected pair was answered {5, 2, 1, 1} and the session
\* ended with UserAuthFailed.
C10_Witness ==
    /\ Called("Valid")
    /\ <<auth.user, auth.pass>> \notin auth.cator.store
    /\ io.out = <<socks5Version, userPassAuth, userAuthVersion, authFailure>>
    /\ err = "UserAuthFailed"

EndsWith(q, suffix) ==
    Len(q) >= Len(suffix) /\ SubSeq(q, Len(q) - Len(suffix) + 1, Len(q)) = suffix

\* A reply frame that carries no address.
PlainReply(resp) == replyFrame(resp, NilAddr)

\* The last thing the session did was to send this reply: it is the last
\* frame handed to the client connection, it reached the client unless that
\* write failed, and then the session ended with "Failed to send reply".
LastReply(resp, e) ==
    /\ pc = "closed"
    /\ req.reply = resp
    /\ EndsWith(io.tried, PlainReply(resp))
    /\ IF io.wfail
       THEN err = "FailedToSendReply" /\ io.tried = io.out \o PlainReply(resp)
       ELSE err = e /\ io.tried = io.out

\* C11: a CONNECT request that the RuleSet denied is answered with a
\* ruleFailure (2) reply, the session ends with the "blocked by rules" error
\* (with "Failed to send reply" when the write of that reply fails), and the
\* session has made no dial and started no relay.
C11_RuleDenial ==
    (req.cmd = connectCommand /\ req.allowed = "no") =>
        /\ LastReply(ruleFailure, "BlockedByRules")
        /\ ~Called("DialTCP") /\ ~Called("proxy")
        /\ req.dialed = "unset" /\ req.target = "none" /\ req.dialArg = NilAddr

\* C11 witness: a denied CONNECT whose ruleFailure reply reached the client.
C11_Witness ==
    /\ req.cmd = connectCommand /\ req.allowed = "no"
    /\ err = "BlockedByRules"
    /\ EndsWith(io.out, PlainReply(ruleFailure))

LastCalls(n) == SubSeq(io.calls, Len(io.calls) - n + 1, Len(io.calls))

RuleOf(cmd) ==
    CASE cmd = connectCommand -> "AllowConnect"
      [] cmd = bindCommand -> "AllowBind"
      [] cmd = associateCommand -> "AllowAssociate"
      [] OTHER -> "none"

\* C12: a session whose request is BIND or ASSOCIATE never dials and never
\* relays; once its handler has returned, the handler asked the command's
\* rule and then sent one reply and did nothing else: commandNotSupported (7)
\* with the session ending without error when the rule allowed,
\* ruleFailure (2) with the "blocked by rules" error when it denied (and
\* "Failed to send reply" when the write of the reply fails).
C12_BindAssociateUnsupported ==
    (req.cmd \in {bindCommand, associateCommand}) =>
        /\ ~Called("DialTCP") /\ ~Called("proxy") /\ ~Called("AllowConnect")
        /\ pc # "relay" /\ req.target = "none" /\ req.dialed = "unset"
        /\ (Called("dispatch") /\ pc = "closed") =>
              /\ req.allowed \in {"yes", "no"}
              /\ LastCalls(3) = <<"dispatch", RuleOf(req.cmd), "sendReply">>
              /\ req.allowed = "yes" => LastReply(commandNotSupported, "nil")
              /\ req.allowed = "no" => LastReply(ruleFailure, "BlockedByRules")

\* C12 witness: an allowed BIND was answered commandNotSupported and the
\* session ended without error.
C12_Witness ==
    /\ req.cmd = bindCommand /\ req.allowed = "yes"
    /\ pc = "closed" /\ err = "nil"
    /\ EndsWith(io.out, PlainReply(commandNotSupported))

\* The success reply of a dial whose connection is bound to LocalAddr: the
\* IPv4 address type, the four bytes of the local IP and the local port.
SuccessFrame ==
    <<socks5Version, successReply, 0, ipv4Address>> \o LocalAddr.IP
        \o <<LocalAddr.Port \div 256, LocalAddr.Port % 256>>

\* C15: once the dial of a CONNECT has succeeded, the last frame handed to
\* the client is the success (0) reply with the local IP and port of the
\* outbound connection, whatever the destination was; the relay is started
\* only with that reply in the client's stream and as the next thing after
\* sendReply; when the write of the reply fails no relay is started, the
\* target is closed and the session ends with "Failed to send reply".
C15_SuccessReplyBindAddr ==
    (req.dialed = "ok") =>
        /\ req.reply = successReply
        /\ EndsWith(io.tried, SuccessFrame)
        /\ SuccessFrame # replyFrame(successReply, req.dest)
        /\ SuccessFrame # replyFrame(successReply, req.realDest)
        /\ IF io.wfail
           THEN /\ ~Called("proxy") /\ pc = "closed" /\ req.target = "closed"
                /\ err = "FailedToSendReply"
                /\ io.tried = io.out \o SuccessFrame
           ELSE /\ io.tried = io.out
                /\ LastCalls(3) = <<"DialTCP", "sendReply", "proxy">>
                /\ pc \in {"relay", "closed"}

\* C15 witness: a relay was started behind a success reply that carries the
\* local address, for a destination with another IP and port.
C15_Witness ==
    /\ pc = "relay" /\ req.dialed = "ok"
    /\ EndsWith(io.out, SuccessFrame)
    /\ req.realDest.IP # LocalAddr.IP /\ req.realDest.Port # LocalAddr.Port

\* C16: a CONNECT whose dial failed is answered with exactly one reply, the
\* last thing the session does: connectionRefused (5) when the failure is a
\* refusal, networkUnreachable (3) when it is an unreachable network,
\* hostUnreachable (4) for any other failure; the session then ends with the
\* "connect failed" error ("Failed to send reply" when the write of the
\* reply fails) and no relay is started.
C16_DialFailureClassified ==
    (req.dialed = "failed") =>
        /\ req.dialMsg.refused => LastReply(connectionRefused, "ConnectFailed")
        /\ req.dialMsg.netUnreachable => LastReply(networkUnreachable, "ConnectFailed")
        /\ (~req.dialMsg.refused /\ ~req.dialMsg.netUnreachable)
              => LastReply(hostUnreachable, "ConnectFailed")
        /\ LastCalls(2) = <<"DialTCP", "sendReply">>
        /\ ~Called("proxy") /\ req.target = "none"

\* C16 witness: a refused dial was answered connectionRefused and the reply
\* reached the client.
C16_Witness ==
    /\ req.dialed = "failed" /\ req.dialMsg.refused
    /\ err = "ConnectFailed"
    /\ EndsWith(io.out, PlainReply(connectionRefused))

\* The bytes handleRequest has read, from the request header on.
RequestRead ==
    IF req.at < 0 THEN <<>> ELSE SubSeq(io.rd, req.at + 1, Len(io.rd))

AfterRequestParsing ==
    {"Resolve", "Rewrite", "dispatch", "AllowConnect", "AllowBind",
     "AllowAssociate", "DialTCP", "proxy"}

\* C17: when the request the server has read has version 5 and an address
\* type byte other than 1, 3 and 4, then whatever its command byte is, the
\* server read nothing behind that byte, sent an addrTypeNotSupported (8)
\* reply as the last thing it did and ended the session with the address
\* error ("Failed to send reply" when the write of the reply fails); the
\* resolver, the rewriter, the RuleSet and the dialer were not called.
C17_AddrTypeNotSupported ==
    (/\ Len(RequestRead) >= 4
     /\ RequestRead[1] = socks5Version
     /\ RequestRead[4] \notin {ipv4Address, fqdnAddress, ipv6Address}) =>
        /\ Len(RequestRead) = 4
        /\ req.cmd = RequestRead[2]
        /\ LastReply(addrTypeNotSupported, "FailedToReadDestination")
        /\ LastCalls(3) = <<"handleRequest", "readAddrSpec", "sendReply">>
        /\ \A name \in AfterRequestParsing : ~Called(name)

\* C17 witness: a BIND request with an unknown address type was answered
\* addrTypeNotSupported and the reply reached the client.
C17_Witness ==
    /\ Len(RequestRead) = 4
    /\ RequestRead[2] = bindCommand
    /\ RequestRead[4] \notin {ipv4Address, fqdnAddress, ipv6Address}
    /\ err = "FailedToReadDestination"
    /\ EndsWith(io.out, PlainReply(addrTypeNotSupported))

\* C18: when the resolver failed on the name of a request, the server sent a
\* hostUnreachable (4) reply as the last thing it did and the session ended
\* with the resolution error ("Failed to send reply" when the write of the
\* reply fails); the rewriter, the RuleSet and the dialer were not called.
C18_ResolveFailure ==
    (req.resolved = "failed") =>
        /\ req.dest.FQDN # <<>>
        /\ LastReply(hostUnreachable, "FailedToResolve")
        /\ LastCalls(2) = <<"Resolve", "sendReply">>
        /\ \A name \in AfterRequestParsing \ {"Resolve"} : ~Called(name)
        /\ req.rewriter = "unset" /\ req.allowed = "unset" /\ req.dialed = "unset"

\* C18 witness: the name of a CONNECT request did not resolve and the
\* hostUnreachable reply reached the client.
C18_Witness ==
    /\ req.resolved = "failed" /\ req.cmd = connectCommand
    /\ err = "FailedToResolve"
    /\ EndsWith(io.out, PlainReply(hostUnreachable))

CallIndexes(name) == {i \in DOMAIN io.calls : io.calls[i] = name}

\* C19: in a session with a rewriter configured, the rewriter is called once,
\* behind the resolver and before the switch on the command, the rule check
\* and the dial; the RuleSet is asked about the rewritten IP and port and the
\* dial goes to the rewritten IP and port, which are not the requested ones.
\* Without a rewriter the requested destination is used and no rewriter is
\* called.
C19_RewriteBeforeRules ==
    /\ (req.rewriter = "set") =>
          /\ Cardinality(CallIndexes("Rewrite")) = 1
          /\ \A i \in CallIndexes("Rewrite"), j \in DOMAIN io.calls :
                /\ io.calls[j] = "Resolve" => j < i
                /\ io.calls[j] \in AfterRequestParsing \ {"Resolve", "Rewrite"} => i < j
          /\ req.realDest = RewrittenAddr
          /\ req.realDest.Port # req.dest.Port
          /\ req.allowed # "unset" =>
                /\ req.ruleArg.IP = RewrittenAddr.IP
                /\ req.ruleArg.Port = RewrittenAddr.Port
          /\ req.dialed # "unset" =>
                /\ req.dialArg.IP = RewrittenAddr.IP
                /\ req.dialArg.Port = RewrittenAddr.Port
    /\ (req.rewriter = "nil") =>
          /\ ~Called("Rewrite")
          /\ req.realDest = req.dest

\* C19 witness: a CONNECT to a resolved name was rewritten, allowed and
\* dialed at the rewritten address.
C19_Witness ==
    /\ req.rewriter = "set" /\ req.resolved = "ok"
    /\ req.cmd = connectCommand /\ req.allowed = "yes" /\ req.dialed = "ok"
    /\ req.dialArg.IP = RewrittenAddr.IP /\ req.dialArg.IP # req.dest.IP

\* C20: a session whose first byte is not 5 ends with the version error
\* having read that byte only and handed nothing to the client connection;
\* a session whose request header has a version byte other than 5 ends with
\* the command version error having read the header only, without a reply:
\* what was handed to the client connection is what the negotiation wrote.
C20_VersionMismatchSilent ==
    /\ (Len(io.rd) >= 1 /\ io.rd[1] # socks5Version) =>
          /\ pc = "closed" /\ err = "UnsupportedVersion"
          /\ Len(io.rd) = 1
          /\ io.tried = <<>> /\ io.out = <<>>
          /\ io.calls = <<"readVersion">>
    /\ (Len(RequestRead) >= 3 /\ RequestRead[1] # socks5Version) =>
          /\ pc = "closed" /\ err = "UnsupportedCommandVersion"
          /\ Len(RequestRead) = 3
          /\ req.reply = -1 /\ ~Called("sendReply")
          /\ io.tried \in NegotiationWrites /\ io.out = io.tried
          /\ LastCalls(1) = <<"handleRequest">>

\* C20 witness: after a successful negotiation the request header came with
\* version 4 and the session ended without a reply.
C20_Witness ==
    /\ Len(RequestRead) = 3 /\ RequestRead[1] = 4
    /\ err = "UnsupportedCommandVersion"
    /\ io.out = <<socks5Version, noAuth>>

\* C22: after New, an empty AuthMethods list has become exactly NO_AUTH, or
\* exactly USER_PASS over the supplied CredentialStore; a missing resolver,
\* rule set and dial function have become the system resolver, allow-all and
\* the platform dialer, and supplied ones are kept; 0xFF is no key of the
\* registry.
C22_NewNormalizes ==
    pc = "built" =>
        /\ Len(conf.AuthMethods) = 0 =>
               /\ DOMAIN server.authMethods =
                      IF conf.Credentials.nil THEN {0} ELSE {2}
               /\ ~conf.Credentials.nil =>
                      server.authMethods[2] =
                          UserPassAuthenticator(conf.Credentials.store)
        /\ server.config.Resolver =
               IF conf.Resolver = "nil" THEN "DNSResolver" ELSE conf.Resolver
        /\ server.config.Rules =
               IF conf.Rules = "nil" THEN "PermitAll" ELSE conf.Rules
        /\ server.config.ConnectFunc =
               IF conf.ConnectFunc = "nil" THEN "net.Dial" ELSE conf.ConnectFunc
        /\ 255 \notin DOMAIN server.authMethods

\* C23: the frame of a reply without an address is the 10 bytes
\* {5, code, 0, 1, 0,0,0,0, 0,0}; every session that answered with another
\* code than success handed exactly that frame to the client connection as
\* the last thing it did and ended without a crash; the frame reached the
\* client unless the write itself failed, which is the only way for the
\* session to end with "Failed to send reply".
C23_NilAddressReply ==
    /\ \A code \in 0..255 :
          replyFrame(code, NilAddr) = <<5, code, 0, 1, 0, 0, 0, 0, 0, 0>>
    /\ (req.reply # -1 /\ req.reply # successReply) =>
          LET frame == <<5, req.reply, 0, 1, 0, 0, 0, 0, 0, 0>> IN
          /\ pc = "closed" /\ err # "panic"
          /\ LastCalls(1) = <<"sendReply">>
          /\ EndsWith(io.tried, frame)
          /\ err = "FailedToSendReply" => io.wfail
          /\ ~io.wfail => EndsWith(io.out, frame)

\* C23 witness: a CONNECT denied by the rule set was answered with the
\* 10-byte ruleFailure frame and the frame reached the client.
C23_Witness ==
    /\ req.reply = ruleFailure /\ req.allowed = "no" /\ ~io.wfail
    /\ EndsWith(io.out, <<5, 2, 0, 1, 0, 0, 0, 0, 0, 0>>)

\* The code of the condition a request met, from what the resolver, the
\* RuleSet and the dial answered.
ReportedCondition ==
    IF req.dialed = "ok" THEN 0
    ELSE IF req.dialed = "failed"
    THEN IF req.dialMsg.refused THEN 5
         ELSE IF req.dialMsg.netUnreachable THEN 3
         ELSE 4
    ELSE IF req.allowed = "no" THEN 2
    ELSE IF req.resolved = "failed" THEN 4
    ELSE IF Len(RequestRead) >= 4
            /\ RequestRead[4] \notin {ipv4Address, fqdnAddress, ipv6Address}
    THEN 8
    ELSE 7

\* C24: the nine reply codes are 0..8 in the order success, serverFailure,
\* ruleFailure, networkUnreachable, hostUnreachable, connectionRefused,
\* ttlExpired, commandNotSupported, addrTypeNotSupported; the reply a session
\* has sent is a frame that starts with 5 and whose second byte is the code
\* of the condition the request met.
C24_ReplyCodes ==
    /\ <<successReply, serverFailure, ruleFailure, networkUnreachable,
         hostUnreachable, connectionRefused, ttlExpired, commandNotSupported,
         addrTypeNotSupported>> = <<0, 1, 2, 3, 4, 5, 6, 7, 8>>
    /\ req.reply # -1 =>
          /\ Len(io.tried) >= 10
          /\ io.tried[Len(io.tried) - 9] = 5
          /\ io.tried[Len(io.tried) - 8] = ReportedCondition
          /\ req.reply = ReportedCondition

\* C24 witness: a request with a command the server does not know was
\* answered and the second byte of the frame the client got is 7.
C24_Witness ==
    /\ req.cmd \notin {-1, connectCommand, bindCommand, associateCommand}
    /\ req.reply # -1 /\ ~io.wfail /\ Len(io.out) >= 10
    /\ io.out[Len(io.out) - 8] = 7

\* The number of bytes read up to the end of the client's method list.
SubNegotiationAt == 2 + Len(auth.methods)

\* C28: when the username/password authenticator has read a sub-negotiation
\* header whose version byte is not 1, the session ends with the
\* unsupported auth version error; nothing behind the two header bytes was
\* read, the CredentialStore was not queried, and the method announcement
\* {5, 2} is all that was handed to the client connection.
C28_BadAuthVersion ==
    (/\ auth.cator.kind = "UserPass"
     /\ Len(io.rd) >= SubNegotiationAt + 2
     /\ io.rd[SubNegotiationAt + 1] # 1) =>
        /\ pc = "closed" /\ err = "UnsupportedAuthVersion"
        /\ Len(io.rd) = SubNegotiationAt + 2
        /\ auth.user = <<>> /\ auth.pass = <<>> /\ auth.cred = "none"
        /\ ~Called("Valid") /\ ~Called("handleRequest")
        /\ io.tried = <<5, 2>> /\ io.out = <<5, 2>>

\* C28 witness: a client that was told to use username/password sent a
\* credentials frame of version 5 with a username behind the header.
C28_Witness ==
    /\ auth.cator.kind = "UserPass"
    /\ Len(io.rd) = SubNegotiationAt + 2
    /\ io.rd[SubNegotiationAt + 1] = 5 /\ io.rd[SubNegotiationAt + 2] > 0
    /\ io.in # <<>>
    /\ err = "UnsupportedAuthVersion" /\ io.out = <<5, 2>>

\* The address type byte of the request read, 0 before it is read.
RequestAddrType == IF Len(RequestRead) >= 4 THEN RequestRead[4] ELSE 0

\* C29: a request with a domain name address, whatever the length of the
\* name, that has come to the switch on the command had its name resolved
\* by one call of the resolver, made before the rewriter, the rule check and
\* the dial, and the RuleSet and the dial got the resolved IP (without a
\* rewriter); a request with an IPv4 or IPv6 address never calls the
\* resolver.
C29_DomainAlwaysResolved ==
    /\ (RequestAddrType = 3 /\ (pc = "dispatch" \/ Called("dispatch"))) =>
          /\ Cardinality(CallIndexes("Resolve")) = 1
          /\ \A i \in CallIndexes("Resolve"), j \in DOMAIN io.calls :
                io.calls[j] \in AfterRequestParsing \ {"Resolve"} => i < j
          /\ req.resolved = "ok"
          /\ req.rewriter = "nil" =>
                /\ req.allowed # "unset" => req.ruleArg.IP = IPv4b
                /\ req.dialed # "unset" => req.dialArg.IP = IPv4b
    /\ RequestAddrType \in {1, 4} => ~Called("Resolve")

\* C30: a session that has made an outbound connection attempt made it by a
\* call of the configured dial function, server.config.ConnectFunc, and no
\* session calls net.DialTCP itself.
C30_DialsThroughConnectFunc ==
    /\ ~Called("DialTCP")
    /\ req.dialed # "unset" =>
          server.config.ConnectFunc = "custom" /\ Called("ConnectFunc")

\* C31: after New on a configuration with a CredentialStore, whatever its
\* AuthMethods list, the registry has under USER_PASS (2) a username/password
\* authenticator over that store.
C31_CredentialsEnableUserPass ==
    (pc = "built" /\ ~conf.Credentials.nil) =>
        /\ 2 \in DOMAIN server.authMethods
        /\ server.authMethods[2] = UserPassAuthenticator(conf.Credentials.store)

\* C33: a ServeConn that has returned has closed the client connection,
\* whatever error it returns; the connection to the target exists only after
\* a successful dial and is open only while handleConnect is relaying: once
\* the handler has returned it is closed, also when the success reply could
\* not be written.
C33_NoConnectionLeak ==
    /\ err \notin {"running", "panic"} => pc = "closed"
    /\ req.dialed # "ok" => req.target = "none"
    /\ req.dialed = "ok" => req.target \in {"open", "closed"}
    /\ req.target = "open" => pc = "relay"
    /\ (req.dialed = "ok" /\ pc = "closed") => req.target = "closed"

\* C33 witness: the dial succeeded, the write of the success reply failed,
\* and the session ended with both connections closed.
C33_Witness ==
    /\ req.dialed = "ok" /\ io.wfail /\ err = "FailedToSendReply"
    /\ pc = "closed" /\ req.target = "closed"

(***************************************************************************)
(* Properties of the address codec                                         *)
(***************************************************************************)
\* C25: for every AddrSpec of type IPv4, IPv6 or domain name, readAddrSpec
\* applied to the address bytes sendReply wrote returns an AddrSpec with the
\* same address bytes or the same name, and the same port.
C25_CodecRoundTrip ==
    codec.pc = "done" =>
        /\ codec.sent = "nil" /\ codec.read = "nil" /\ codec.left = 0
        /\ codec.decoded.IP = codec.addr.IP
        /\ codec.decoded.FQDN = codec.addr.FQDN
        /\ codec.decoded.Port = codec.addr.Port

\* C25, amended: the same, except that a 16-byte address that starts with
\* the IPv4-in-IPv6 prefix 0:0:0:0:0:ffff comes back as the 4 bytes behind
\* that prefix (sendReply writes it as an IPv4 address).
C25_CodecRoundTripAmended ==
    codec.pc = "done" =>
        /\ codec.sent = "nil" /\ codec.read = "nil" /\ codec.left = 0
        /\ codec.decoded.IP =
              IF /\ Len(codec.addr.IP) = 16
                 /\ SubSeq(codec.addr.IP, 1, 12) =
                       <<0, 0, 0, 0, 0, 0, 0, 0, 0, 0, 255, 255>>
              THEN SubSeq(codec.addr.IP, 13, 16)
              ELSE codec.addr.IP
        /\ codec.decoded.FQDN = codec.addr.FQDN
        /\ codec.decoded.Port = codec.addr.Port

\* C25 witness: a 16-byte address without the IPv4-in-IPv6 prefix and a port
\* above 255 came back as they were.
C25_Witness ==
    /\ codec.pc = "done"
    /\ Len(codec.addr.IP) = 16 /\ codec.decoded.IP = codec.addr.IP
    /\ codec.addr.Port = 65535 /\ codec.decoded.Port = 65535

(***************************************************************************)
(* Properties of the relay                                                 *)
(***************************************************************************)
IsPrefix(p, q) == Len(p) <= Len(q) /\ SubSeq(q, 1, Len(p)) = p

Copying(name) == Called("proxy") /\ relay.task[name].pc \in {"copy", "write"}

\* What the client has received before the first relayed byte: the method
\* selection and the success reply.
RelayPreamble == <<socks5Version, noAuth>> \o replyFrame(successReply, LocalAddr)

\* C13: at every point of a session the bytes written to the target are an
\* initial part of what the client sent behind its request, the bytes
\* pipelined with the request included, and while the copy task runs the
\* bytes written, the chunk in its hands and the bytes not yet read make up
\* exactly what the client sent; the same holds from the target to the
\* client, whose stream is the method selection, the success reply and then
\* an initial part of what the target sent; before the relay is started no
\* byte of the target is in the client's stream.
C13_RelayVerbatim ==
    /\ IsPrefix(relay.targetGot, relay.clientSent)
    /\ Copying("target") =>
          relay.targetGot \o relay.task["target"].chunk \o io.in = relay.clientSent
    /\ IF Called("proxy")
       THEN \E k \in 0..Len(relay.targetSent) :
               /\ io.out = RelayPreamble \o SubSeq(relay.targetSent, 1, k)
               /\ Copying("client") =>
                     SubSeq(relay.targetSent, 1, k) \o relay.task["client"].chunk
                         \o relay.targetIn = relay.targetSent
       ELSE Range(io.out) \cap Range(TargetData) = {}

\* C13 witness: the client pipelined data with its request and sent more
\* later, the target sent data, and each side has received all of it.
C13_Witness ==
    /\ Called("proxy")
    /\ relay.pipelined > 0 /\ Len(relay.clientSent) > relay.pipelined
    /\ relay.targetGot = relay.clientSent
    /\ Len(relay.targetSent) = MaxRelayBytes
    /\ io.out = RelayPreamble \o relay.targetSent

LegClosed == relay.clientEnd # "open" \/ relay.targetEnd # "open"

RelayOver == pc = "closed" /\ \A name \in ProxyNames : relay.task[name].pc = "done"

\* C14: with the goroutines and the handler scheduled, once a leg of an
\* established relay has closed, the handler returns and both proxy tasks
\* terminate; and the handler of a relay never returns before one of the
\* tasks has finished.
C14_RelayTerminates ==
    /\ [](Called("proxy") /\ pc = "closed"
            => \E name \in ProxyNames : relay.task[name].pc = "done")
    /\ (Called("proxy") /\ LegClosed) ~> RelayOver

\* C14 witness: the client closed its sending side and nothing else closed;
\* the task reading the client ended the session and the task blocked on the
\* target ended with the error of the deferred close.
C14_Witness ==
    /\ Called("proxy") /\ RelayOver
    /\ relay.clientEnd = "shutdown" /\ relay.targetEnd = "open"
    /\ relay.task["target"].result = "nil"
    /\ relay.task["client"].result = "error"

\* The outcomes the handler has received from errCh.
Received == IF pc = "closed" /\ Called("proxy") THEN 1 ELSE 0

\* C26: a relay has two copy tasks and a result channel of capacity two;
\* each task sends one outcome, so that the outcomes sent are those in the
\* channel and the one the handler received; a task that has come to its
\* send can always perform it, also when the handler has returned.
C26_ErrChNeverBlocks ==
    Called("proxy") =>
        /\ DOMAIN relay.task = {"target", "client"}
        /\ Len(relay.errCh) <= 2
        /\ Len(relay.errCh) + Received =
              Cardinality({name \in ProxyNames : relay.task[name].pc = "done"})
        /\ \A name \in ProxyNames :
              relay.task[name].pc = "send" => ENABLED proxySend(name)

\* C26 witness: the handler has received the first outcome and returned, the
\* second task has sent its outcome too and it stays in the channel.
C26_Witness ==
    /\ pc = "closed" /\ Called("proxy")
    /\ \A name \in ProxyNames : relay.task[name].pc = "done"
    /\ Len(relay.errCh) = 1

\* C32: a session calls sendReply at most once.  Behind the method selection
\* the client connection was handed nothing before the reply, the 10 bytes of
\* the reply and nothing else after a reply other than success, and the
\* success reply followed by bytes of the target after a success reply; a
\* session without a success reply starts no relay and none of the target's
\* bytes is in the client's stream.
C32_OneReplyPerSession ==
    /\ Cardinality(CallIndexes("sendReply")) <= 1
    /\ req.reply = -1 <=> ~Called("sendReply")
    /\ req.reply = -1 => io.tried = <<5, 0>>
    /\ (req.reply # -1 /\ req.reply # 0) =>
          /\ io.tried = <<5, 0>> \o <<5, req.reply, 0, 1, 0, 0, 0, 0, 0, 0>>
          /\ pc = "closed"
    /\ req.reply = 0 =>
          \E k \in 0..Len(relay.targetSent) :
             io.tried = <<5, 0>> \o SuccessFrame \o SubSeq(relay.targetSent, 1, k)
    /\ req.reply # 0 =>
          /\ ~Called("proxy")
          /\ Range(io.tried) \cap Range(TargetData) = {}

\* C32 witness: a session ended after a relay; the client got the success
\* reply and, behind it, everything the target sent.
C32_Witness ==
    /\ pc = "closed" /\ req.reply = 0
    /\ Cardinality(CallIndexes("sendReply")) = 1
    /\ relay.targetSent # <<>>
    /\ io.out = <<5, 0>> \o SuccessFrame \o relay.targetSent

(***************************************************************************)
(* Properties of the listener life cycle                                   *)
(***************************************************************************)

\* C1: once asyncServe has received a signal with wait = true, it neither
\* reaches l.Close() nor returns while a connection handler it spawned is
\* still running.
C1_GracefulDrain ==
    (signalled /\ wait /\ (loopPc \in {"close", "returned"} \/ listener = "closed"))
        => \A c \in ConnIds : tracked[c] => handlers[c] = "done"

\* C1 witness: a draining shutdown has completed after connections were served.
C1_Witness ==
    /\ signalled /\ wait /\ loopPc = "returned" /\ listener = "closed"
    /\ \E c \in ConnIds : tracked[c] /\ handlers[c] = "done"

\* C2: after the accept loop has received a signal it never enters Accept
\* again, takes no connection from the backlog and starts no handler.
C2_NoAcceptAfterSignal ==
    [][signalled =>
          /\ loopPc' # "accept"
          /\ backlog' >= backlog
          /\ \A c \in ConnIds : handlers[c] = "none" => handlers'[c] = "none"]_vars

\* C2 witness: the loop has been signalled and returned while a client that
\* connected is still waiting, unaccepted.
C2_Witness ==
    signalled /\ loopPc = "returned" /\ backlog > 0

\* C3 (as claimed): a Stop(true) call that has returned finds no accepted
\* connection still active.
C3_StopReturnsAfterDrain ==
    \A p \in Stoppers :
        (stopPc[p] = "returned" /\ stopArg[p]) => Running = {}

\* A draining accept loop is running: asyncServe is in its loop.
LoopRunning == loopPc \in {"select", "accept"}

\* A Stop call returns only in the step in which asyncServe, at its select,
\* receives the value; that step ends the loop.
StopReturnsByReceive ==
    [][\A p \in Stoppers :
          (stopPc[p] # "returned" /\ stopPc'[p] = "returned") =>
              /\ stopPc[p] = "sending" /\ LoopRunning /\ lkind = "tcp"
              /\ ~signalled /\ signalled' /\ wait' = stopArg[p]
              /\ ~LoopRunning']_vars

\* While asyncServe is in its loop, a Stop call that is sending leads to the
\* loop having received a signal, unless Accept failed and ended the loop.
StopEventuallyReceived ==
    \A p \in Stoppers :
        (stopPc[p] = "sending" /\ LoopRunning)
            ~> (signalled \/ (loopPc = "returned" /\ listener = "open"))

\* A loop run receives at most one signal and does not accept after it.
AtMostOneSignal ==
    [](/\ Cardinality({p \in Stoppers : stopPc[p] = "returned"}) <= 1
       /\ signalled <=> \E p \in Stoppers : stopPc[p] = "returned"
       /\ signalled => ~LoopRunning)

C27_TrackerInvariant ==
    /\ wg >= 0
    /\ wg = Cardinality({c \in ConnIds : tracked[c] /\ handlers[c] = "running"})
    /\ lkind = "tcp" => \A c \in ConnIds : handlers[c] # "none" => tracked[c]

\* C27 witness: of two connections asyncServe accepted, one handler has
\* returned and the other is counted.
C27_Witness ==
    /\ lkind = "tcp" /\ wg = 1
    /\ \E c, d \in ConnIds : handlers[c] = "done" /\ handlers[d] = "running"

\* C21: whatever the clients send, the process is never terminated by the
\* handler of one connection: the accept loop is not killed and no handler
\* of another connection is killed while it runs.
C21_FailureIsolated ==
    /\ loopPc # "killed"
    /\ \A c \in ConnIds : handlers[c] # "killed"

\* C4: after a signal with wait = false the loop never waits on the
\* WaitGroup (it is at the wait test, at l.Close or has returned), it has
\* closed the listener when it returns, and no step of the loop changes the
\* state of a handler: running handlers stay running.
C4_NoWaitShutdown ==
    [][(signalled' /\ ~wait') =>
          /\ loopPc' \in {"afterLoop", "close", "returned"}
          /\ (loopPc' = "returned" => listener' = "closed")
          /\ (loopPc' # loopPc => handlers' = handlers)]_vars

\* C4 witness: the loop has closed the listener and returned without wait
\* while a handler is still running.
C4_Witness ==
    /\ signalled /\ ~wait /\ loopPc = "returned" /\ listener = "closed"
    /\ Running # {}

====
